---- MODULE Spec2Model ----
(***************************************************************************)
(* Generate-validate-repair controller of the kql toolkit.                 *)
(*                                                                         *)
(* Strings are TLA+ strings; a temperature is a fixed-point number counted *)
(* in tenths (0.2 is 2, 0.8 is 8).                                         *)
(***************************************************************************)
EXTENDS Integers, Sequences, FiniteSets, TLC

\* ------------------------------------------------------------------------
\* Bounds of the model
\* ------------------------------------------------------------------------

\* largest value of ValidationConfig.Retries explored
MaxRetries == 2

\* the smallest value of ValidationConfig.Retries explored is -NegRetries
\* (the --retries flag is an unvalidated int)
NegRetries == 2

\* largest number of pieces a text handed to extractKQL is put together from
MaxPieces == 3

\* ------------------------------------------------------------------------
\* Strings (Go's strings package, as far as the program uses it)
\* ------------------------------------------------------------------------

UpperLetters == "ABCDEFGHIJKLMNOPQRSTUVWXYZ"

LowerLetters == "abcdefghijklmnopqrstuvwxyz"

Digits == "0123456789"

CharAt(s, i) == SubSeq(s, i, i)

\* strings.HasPrefix
HasPrefix(s, p) == Len(s) >= Len(p) /\ SubSeq(s, 1, Len(p)) = p

\* strings.HasSuffix
HasSuffix(s, p) == Len(s) >= Len(p) /\ SubSeq(s, Len(s) - Len(p) + 1, Len(s)) = p

\* the first position >= i at which sub occurs in s; 0 when there is none
IndexFrom(s, sub, i) ==
    LET at == {k \in i..(Len(s) - Len(sub) + 1) : SubSeq(s, k, k + Len(sub) - 1) = sub}
    IN  IF at = {} THEN 0 ELSE CHOOSE k \in at : \A j \in at : k <= j

\* strings.Index, 1-based; 0 when sub does not occur in s
Index(s, sub) == IndexFrom(s, sub, 1)

\* strings.Contains
Contains(s, sub) == \E i \in 1..(Len(s) - Len(sub) + 1) : SubSeq(s, i, i + Len(sub) - 1) = sub

UpperSet == {CharAt(UpperLetters, i) : i \in 1..Len(UpperLetters)}

LowerMap == [c \in UpperSet |-> CharAt(LowerLetters, Index(UpperLetters, c))]

\* one character of strings.ToLower
LowerChar(c) == IF c \in UpperSet THEN LowerMap[c] ELSE c

RECURSIVE LowerFrom(_, _)
LowerFrom(s, i) ==
    IF i > Len(s) THEN "" ELSE LowerChar(CharAt(s, i)) \o LowerFrom(s, i + 1)

\* strings.ToLower
ToLower(s) == LowerFrom(s, 1)

DigitSet == {CharAt(Digits, i) : i \in 1..Len(Digits)}

IsDigit(c) == c \in DigitSet

AllDigits(s) == s # "" /\ \A i \in 1..Len(s) : IsDigit(CharAt(s, i))

RECURSIVE Atoi(_)
\* strconv.Atoi on a non-empty run of decimal digits
Atoi(s) ==
    IF s = "" THEN 0
    ELSE 10 * Atoi(SubSeq(s, 1, Len(s) - 1)) + (Index(Digits, CharAt(s, Len(s))) - 1)

\* the %d verb of fmt
FmtInt(n) == ToString(n)

\* all orders in which the elements of a finite set can be listed
Orders(S) ==
    {f \in [1..Cardinality(S) -> S] : \A i, j \in 1..Cardinality(S) : i # j => f[i] # f[j]}

IsSpace(c) == c \in {" ", "\t", "\n", "\r"}

RECURSIVE TrimLeftSpace(_)
TrimLeftSpace(s) ==
    IF s # "" /\ IsSpace(CharAt(s, 1)) THEN TrimLeftSpace(SubSeq(s, 2, Len(s))) ELSE s

RECURSIVE TrimRightSpace(_)
TrimRightSpace(s) ==
    IF s # "" /\ IsSpace(CharAt(s, Len(s))) THEN TrimRightSpace(SubSeq(s, 1, Len(s) - 1)) ELSE s

\* strings.TrimSpace
TrimSpace(s) == TrimRightSpace(TrimLeftSpace(s))

\* strings.TrimPrefix
TrimPrefix(s, p) == IF HasPrefix(s, p) THEN SubSeq(s, Len(p) + 1, Len(s)) ELSE s

\* strings.TrimSuffix
TrimSuffix(s, p) == IF HasSuffix(s, p) THEN SubSeq(s, 1, Len(s) - Len(p)) ELSE s

RECURSIVE Split(_, _)
\* strings.Split(s, sep) for a non-empty separator
Split(s, sep) ==
    LET i == Index(s, sep)
    IN  IF i = 0 THEN <<s>>
        ELSE <<SubSeq(s, 1, i - 1)>> \o Split(SubSeq(s, i + Len(sep), Len(s)), sep)

RECURSIVE Join(_, _)
\* strings.Join
Join(parts, sep) ==
    IF parts = <<>> THEN ""
    ELSE IF Len(parts) = 1 THEN parts[1]
    ELSE parts[1] \o sep \o Join(Tail(parts), sep)

\* ------------------------------------------------------------------------
\* ResponseExtractor (cmd/generate.go)
\* ------------------------------------------------------------------------

\* The backquote character.  A TLA+ string literal cannot hold a backquote,
\* so the model writes the character # wherever the program's text has one;
\* no other text of the model contains #.
BT == "#"

\* the triple-backquote code fence
Fence == BT \o BT \o BT

\* what an expression evaluates to when one of its index or slice expressions
\* is out of range (the Go runtime panics and the function returns nothing)
Panic == "panic: runtime error: index out of range"

\* s[lo:hi] of Go: 0-based, hi exclusive
Slice(s, lo, hi) ==
    IF 0 <= lo /\ lo <= hi /\ hi <= Len(s) THEN SubSeq(s, lo + 1, hi) ELSE Panic

\* s[i] of Go: 0-based
ByteAt(s, i) == IF 0 <= i /\ i < Len(s) THEN CharAt(s, i + 1) ELSE Panic

\* stripInlineBackticks reading s[0] and s[len(s)-1] without the length guard
stripInlineBackticksUnguarded(s0) ==
    LET s1 == TrimSpace(s0)
        first == ByteAt(s1, 0)
        last == ByteAt(s1, Len(s1) - 1)
        s2 == IF first = Panic \/ last = Panic THEN Panic
              ELSE IF first = BT /\ last = BT THEN Slice(s1, 1, Len(s1) - 1)
              ELSE s1
    IN  IF s2 = Panic THEN Panic
        ELSE TrimSpace(TrimSuffix(TrimPrefix(s2, BT), BT))

stripInlineBackticks(s0) ==
    LET s1 == TrimSpace(s0)
        first == ByteAt(s1, 0)
        last == ByteAt(s1, Len(s1) - 1)
        s2 == IF Len(s1) >= 2
              THEN IF first = Panic THEN Panic
                   ELSE IF first # BT THEN s1
                   ELSE IF last = Panic THEN Panic
                   ELSE IF last # BT THEN s1
                   ELSE Slice(s1, 1, Len(s1) - 1)
              ELSE s1
    IN  IF s2 = Panic THEN Panic
        ELSE TrimSpace(TrimSuffix(TrimPrefix(s2, BT), BT))

looksLikeKQLStart(line) ==
    LET lower == ToLower(line)
    IN  \/ \E s \in {"let ", "//", "/*"} : HasPrefix(lower, s)
        \/ /\ Len(line) > 0
           /\ \/ Contains(UpperLetters, CharAt(line, 1))
              \/ Contains(LowerLetters, CharAt(line, 1))

looksLikeExplanation(line) ==
    LET lower == ToLower(line)
    IN  \E e \in {"this query", "the query", "this will", "explanation:",
                  "note:", "here's", "here is", "the above"} : HasPrefix(lower, e)

\* the fence tags tried by extractKQL, in order
FenceTags == <<Fence \o "kql", Fence \o "kusto", Fence>>

\* the text between the first occurrence of the tag lang and the next fence
\* after it, trimmed: "found" is FALSE when lang does not occur or is not
\* followed by a fence
FenceInterior(response, lang) ==
    LET idx == Index(response, lang) - 1
        start == idx + Len(lang)
        rest == Slice(response, start, Len(response))
        end == Index(rest, Fence) - 1
        inner == Slice(response, start, start + end)
    IN  IF idx = 0 - 1 THEN [found |-> FALSE, text |-> ""]
        ELSE IF rest = Panic THEN [found |-> TRUE, text |-> Panic]
        ELSE IF end = 0 - 1 THEN [found |-> FALSE, text |-> ""]
        ELSE IF inner = Panic THEN [found |-> TRUE, text |-> Panic]
        ELSE [found |-> TRUE, text |-> TrimSpace(inner)]

RECURSIVE FencedBlock(_, _)
\* the loop over the fence tags: the first tag that occurs, has a closing
\* fence and a non-blank interior decides; "found" is FALSE when none does
FencedBlock(response, i) ==
    IF i > Len(FenceTags) THEN [found |-> FALSE, text |-> ""]
    ELSE LET block == FenceInterior(response, FenceTags[i])
         IN  IF block.found /\ block.text # "" THEN block
             ELSE FencedBlock(response, i + 1)

RECURSIVE ScanLines(_, _, _)
\* the line scan of extractKQL: the captured lines
ScanLines(lines, inQuery, kqlLines) ==
    IF lines = <<>> THEN kqlLines
    ELSE LET line == Head(lines)
             trimmed == TrimSpace(line)
             started == inQuery \/ looksLikeKQLStart(trimmed)
         IN  IF ~inQuery /\ trimmed = "" THEN ScanLines(Tail(lines), inQuery, kqlLines)
             ELSE IF started /\ looksLikeExplanation(trimmed) THEN kqlLines
             ELSE IF started THEN ScanLines(Tail(lines), TRUE, Append(kqlLines, line))
             ELSE ScanLines(Tail(lines), FALSE, kqlLines)

\* the line scan and the fallback shared by extractKQL and extractFixedQuery
ScanOrFallback(response) ==
    LET kqlLines == ScanLines(Split(response, "\n"), FALSE, <<>>)
    IN  IF Len(kqlLines) > 0 THEN TrimSpace(Join(kqlLines, "\n")) ELSE response

extractKQL(response0) ==
    LET response == TrimSpace(response0)
        block == IF Contains(response, Fence) THEN FencedBlock(response, 1)
                 ELSE [found |-> FALSE, text |-> ""]
        stripped == stripInlineBackticks(response)
    IN  IF block.found
        THEN IF block.text = Panic THEN Panic ELSE stripInlineBackticks(block.text)
        ELSE IF stripped = Panic THEN Panic
        ELSE ScanOrFallback(stripped)

\* extractFixedQuery of the fix command: extractKQL without the stripping of
\* inline backquotes
extractFixedQuery(response0) ==
    LET response == TrimSpace(response0)
        block == IF Contains(response, Fence) THEN FencedBlock(response, 1)
                 ELSE [found |-> FALSE, text |-> ""]
    IN  IF block.found THEN block.text ELSE ScanOrFallback(response)

\* ------------------------------------------------------------------------
\* Validator boundary (kqlparser.Parse) and ValidationError
\* ------------------------------------------------------------------------

\* source name handed to kqlparser.Parse
SourceName == "generated.kql"

\* A diagnostic of the parser as the environment produces it: positioned
\* (line, column, message) or an opaque message without a position.
Diag(line, column, message, positioned) ==
    [Line |-> line, Column |-> column, Message |-> message, Positioned |-> positioned]

\* Error() of a parser diagnostic of the source called name:
\* "name:line:col: message", or the bare message when the diagnostic has no
\* position
ErrorTextAs(name, d) ==
    IF d.Positioned
    THEN name \o ":" \o FmtInt(d.Line) \o ":" \o FmtInt(d.Column) \o ": " \o d.Message
    ELSE d.Message

ErrorText(d) == ErrorTextAs(SourceName, d)

\* The candidates the environment's parser knows, with their diagnostics;
\* any other text is rejected with one unpositioned diagnostic.
ParseDiags(kql) ==
    CASE kql = "StormEvents | count" -> <<>>
      [] kql = "StormEvents | summarize count() by State" -> <<>>
      [] kql = "StormEvents | where (State == 'TX'" ->
            <<Diag(1, 35, "expected ')'", TRUE)>>
      [] kql = "StormEvents\n| summarize by" ->
            <<Diag(2, 15, "expected expression after BY", TRUE),
              Diag(0, 0, "unexpected end of input", FALSE)>>
      [] kql = "T | take 10\n" -> <<>>
      [] kql = "T | project x\n" -> <<>>
      [] kql = "T | where ((\n" -> <<Diag(1, 13, "expected expression, found \"<EOF>\"", TRUE)>>
      [] OTHER -> <<Diag(0, 0, "syntax error", FALSE)>>

\* kqlparser.Parse(name, kql).Errors, each error as its Error() text
ParseAs(name, kql) ==
    [i \in 1..Len(ParseDiags(kql)) |-> ErrorTextAs(name, ParseDiags(kql)[i])]

\* kqlparser.Parse(SourceName, kql).Errors
Parse(kql) == ParseAs(SourceName, kql)

ValidationError(line, column, message) ==
    [Line |-> line, Column |-> column, Message |-> message]

\* parseErrorToValidationError: the regular expression
\* ^[^:]+:(\d+):(\d+): (.+)$ and its fallback
parseErrorToValidationError(msg) ==
    LET c1 == Index(msg, ":")
        r1 == SubSeq(msg, c1 + 1, Len(msg))
        c2 == Index(r1, ":")
        g1 == SubSeq(r1, 1, c2 - 1)
        r2 == SubSeq(r1, c2 + 1, Len(r1))
        c3 == Index(r2, ":")
        g2 == SubSeq(r2, 1, c3 - 1)
        r3 == SubSeq(r2, c3 + 1, Len(r2))
        g3 == SubSeq(r3, 2, Len(r3))
        matches == /\ c1 >= 2
                   /\ c2 # 0 /\ AllDigits(g1)
                   /\ c3 # 0 /\ AllDigits(g2)
                   /\ HasPrefix(r3, " ")
                   /\ g3 # "" /\ ~Contains(g3, "\n")
    IN  IF matches THEN ValidationError(Atoi(g1), Atoi(g2), g3)
        ELSE ValidationError(1, 1, msg)

\* ------------------------------------------------------------------------
\* ErrorClassifier (getErrorHints, getErrorExamples)
\* ------------------------------------------------------------------------

\* keyword table of getErrorHints: keywords -> hint
HintRules ==
    { [keys |-> {"expected ')'", "expected '('", "unclosed", "unmatched"},
       hint |-> "Ensure all parentheses are balanced"],
      [keys |-> {"expected '|'", "pipe"},
       hint |-> "Each operator should be on a new line starting with |"],
      [keys |-> {"expected ','"},
       hint |-> "Multiple arguments should be separated by commas"],
      [keys |-> {"expected operator", "unknown operator"},
       hint |-> "Common operators: where, project, summarize, extend, join, take, top, sort"],
      [keys |-> {"by"},
       hint |-> "The 'by' clause is used with summarize, top, and order operators"],
      [keys |-> {"string", "quote"},
       hint |-> "Use single or double quotes for string literals"],
      [keys |-> {"triple delimiter", "multi-line string", "illegal"},
       hint |-> "Do NOT wrap output in backticks - output raw KQL only"],
      [keys |-> {"datetime", "date"},
       hint |-> "Use datetime() for date values, e.g., datetime(2024-01-01)"],
      [keys |-> {"timespan", "ago"},
       hint |-> "Use timespan literals like 1h, 7d, 30m or the ago() function"] }

\* keyword table of getErrorExamples: keywords -> examples
ExampleRules ==
    { [keys |-> {"summarize", "count", "sum", "avg"},
       examples |-> {"T | summarize count() by Column",
                     "T | summarize Total=sum(Value) by Category"}],
      [keys |-> {"where", "filter"},
       examples |-> {"T | where Column > 10", "T | where Name == 'value'"}],
      [keys |-> {"project"},
       examples |-> {"T | project Column1, Column2", "T | project NewName = OldName"}],
      [keys |-> {"join"},
       examples |-> {"T1 | join kind=inner T2 on CommonColumn"}],
      [keys |-> {"extend"},
       examples |-> {"T | extend NewColumn = Expression"}],
      [keys |-> {"expected ')'", "expected '('"},
       examples |-> {"Function calls: func(arg1, arg2)"}] }

\* the structural example added on later attempts
ProgressiveExample ==
    "// Multi-line query structure:\nTable\n| where Condition\n| summarize count() by Column"

\* the messages of errors, lower-cased
LowerMessages(errors) == {ToLower(errors[i].Message) : i \in 1..Len(errors)}

\* one of the lower-cased messages contains one of keys
Matches(msgs, keys) == \E msg \in msgs : \E k \in keys : Contains(msg, k)

\* the keys of the hints map built by getErrorHints
HintSet(errors) ==
    LET msgs == LowerMessages(errors)
    IN  {r.hint : r \in {q \in HintRules : Matches(msgs, q.keys)}}

\* ExampleSet that adds the structural example from the second attempt on
ExampleSetFromSecond(errors, attempt, progressive) ==
    LET msgs == LowerMessages(errors)
    IN  UNION {r.examples : r \in {q \in ExampleRules : Matches(msgs, q.keys)}}
        \cup (IF Len(errors) > 0 /\ progressive /\ attempt >= 2 THEN {ProgressiveExample} ELSE {})

\* the keys of the examples map built by getErrorExamples
ExampleSet(errors, attempt, progressive) ==
    LET msgs == LowerMessages(errors)
    IN  UNION {r.examples : r \in {q \in ExampleRules : Matches(msgs, q.keys)}}
        \cup (IF Len(errors) > 0 /\ progressive /\ attempt >= 3 THEN {ProgressiveExample} ELSE {})

\* getErrorHints: the slices it can return (a Go map is iterated in an
\* unspecified order)
getErrorHints(errors) == Orders(HintSet(errors))

\* getErrorExamples: the slices it can return
getErrorExamples(errors, attempt, progressive) ==
    Orders(ExampleSet(errors, attempt, progressive))

\* ------------------------------------------------------------------------
\* PromptBuilder (buildGeneratePrompt, buildRetryPrompt)
\* ------------------------------------------------------------------------

GenerateRequest(prompt, table, schema) ==
    [Prompt |-> prompt, Table |-> table, Schema |-> schema]

\* the fixed role/rules preamble of buildGeneratePrompt
Preamble ==
    "You are a Kusto Query Language (KQL) expert. Generate a KQL query based on the user's natural language description.\n"
    \o "\nRules:\n"
    \o "1. Output ONLY the raw KQL query, no explanations\n"
    \o "2. Do NOT wrap the query in backticks or code blocks\n"
    \o "3. Use proper KQL syntax and operators\n"
    \o "4. Include comments only if the query is complex\n"
    \o "5. Prefer efficient query patterns\n"

buildGeneratePrompt(description, table, schema) ==
    Preamble
    \o (IF table # "" THEN "\nTarget table: " \o table \o "\n" ELSE "")
    \o (IF schema # "" THEN "Available columns: " \o schema \o "\n" ELSE "")
    \o "\nDescription: " \o description \o "\n"
    \o "\nGenerate the KQL query:"

\* the buildPrompt callback runGenerate hands to GenerateWithValidation
buildPrompt(r) == buildGeneratePrompt(r.Prompt, r.Table, r.Schema)

\* ErrorLine with line and column exchanged
ErrorLineSwapped(e) ==
    "Line " \o FmtInt(e.Column) \o ", Column " \o FmtInt(e.Line) \o ": " \o e.Message

\* "Line %d, Column %d: %s" as buildRetryPrompt and the Format* functions
\* print a diagnostic
ErrorLine(e) == "Line " \o FmtInt(e.Line) \o ", Column " \o FmtInt(e.Column) \o ": " \o e.Message

RECURSIVE ErrorLines(_)
\* the loop writing "- Line %d, Column %d: %s\n" for every error
ErrorLines(errors) ==
    IF errors = <<>> THEN ""
    ELSE "- " \o ErrorLine(Head(errors)) \o "\n" \o ErrorLines(Tail(errors))

RECURSIVE HintLines(_)
\* the loop writing "- %s\n" for every hint
HintLines(hints) ==
    IF Len(hints) = 0 THEN ""
    ELSE "- " \o hints[1] \o "\n" \o HintLines([i \in 1..(Len(hints) - 1) |-> hints[i + 1]])

RECURSIVE ExampleLines(_)
\* the loop writing "%s\n" for every example
ExampleLines(examples) ==
    IF Len(examples) = 0 THEN ""
    ELSE examples[1] \o "\n" \o ExampleLines([i \in 1..(Len(examples) - 1) |-> examples[i + 1]])

RetrySeparator == "\n\n---\n\n"

RetryIntro == "Your previous attempt had syntax errors:\n\n" \o Fence \o "kql\n"

RetryEmphasis ==
    "IMPORTANT: Please carefully check all parentheses, pipes, and operator syntax.\n\n"

RetryClosing == "Please fix these errors and provide a corrected query."

\* buildRetryPrompt writing the header of the hints and of the examples
\* section without looking at the length of the slice
buildRetryPromptEmptyHeaders(r, failedKQL, errors, attempt, feedback, hints, examples) ==
    buildPrompt(r)
    \o RetrySeparator
    \o RetryIntro \o failedKQL \o "\n" \o Fence \o "\n\n"
    \o (IF feedback.Errors THEN "Errors:\n" \o ErrorLines(errors) \o "\n" ELSE "")
    \o (IF feedback.Hints THEN "Hints:\n" \o HintLines(hints) \o "\n" ELSE "")
    \o (IF feedback.Examples
        THEN "Correct syntax examples:\n" \o ExampleLines(examples) \o "\n" ELSE "")
    \o (IF feedback.Progressive /\ attempt >= 3 THEN RetryEmphasis ELSE "")
    \o RetryClosing

\* buildRetryPrompt; hints and examples are the slices getErrorHints and
\* getErrorExamples returned for errors
buildRetryPrompt(r, failedKQL, errors, attempt, feedback, hints, examples) ==
    buildPrompt(r)
    \o RetrySeparator
    \o RetryIntro \o failedKQL \o "\n" \o Fence \o "\n\n"
    \o (IF feedback.Errors THEN "Errors:\n" \o ErrorLines(errors) \o "\n" ELSE "")
    \o (IF feedback.Hints /\ Len(hints) > 0
        THEN "Hints:\n" \o HintLines(hints) \o "\n" ELSE "")
    \o (IF feedback.Examples /\ Len(examples) > 0
        THEN "Correct syntax examples:\n" \o ExampleLines(examples) \o "\n" ELSE "")
    \o (IF feedback.Progressive /\ attempt >= 3 THEN RetryEmphasis ELSE "")
    \o RetryClosing

\* ------------------------------------------------------------------------
\* Messages for the user (FormatValidationWarning, FormatValidationError)
\* ------------------------------------------------------------------------

\* The warning sign U+26A0 and the check mark U+2713.  A TLA+ string literal
\* holds ASCII only, so the model writes (!) and (v) for them.
WarningSign == "(!)"

CheckMark == "(v)"

RECURSIVE ResultErrorLines(_)
\* the loop writing "  Line %d, Column %d: %s\n" for every error of a result
ResultErrorLines(errors) ==
    IF errors = <<>> THEN ""
    ELSE "  " \o ErrorLine(Head(errors)) \o "\n" \o ResultErrorLines(Tail(errors))

FormatValidationWarning(r) ==
    WarningSign \o " Warning: generated query has syntax errors (after "
    \o FmtInt(r.Attempts) \o " attempt(s))\n" \o ResultErrorLines(r.Errors)

FormatValidationError(r) ==
    "Error: failed to generate valid query after "
    \o FmtInt(r.Attempts) \o " attempt(s)\n" \o ResultErrorLines(r.Errors)

\* ------------------------------------------------------------------------
\* Prompts and messages of the fix command
\* ------------------------------------------------------------------------

RECURSIVE NumberedErrors(_, _)
\* the loop writing "%d. %v\n" for every error, numbered from i
NumberedErrors(errors, i) ==
    IF errors = <<>> THEN ""
    ELSE FmtInt(i) \o ". " \o Head(errors) \o "\n" \o NumberedErrors(Tail(errors), i + 1)

\* buildErrorContext; it does not use the query
buildErrorContext(q, errors) == "Errors found:\n" \o NumberedErrors(errors, 1)

FixPreamble ==
    "You are a Kusto Query Language (KQL) expert. Fix the syntax errors in the following query.\n"
    \o "\nRules:\n"
    \o "1. Output ONLY the corrected KQL query\n"
    \o "2. Preserve the original intent of the query\n"
    \o "3. Make minimal changes to fix the errors\n"
    \o "4. Do not add features or optimizations, only fix errors\n"

buildFixPrompt(q, errorContext) ==
    FixPreamble
    \o "\n" \o errorContext \o "\n"
    \o "\nOriginal query with errors:\n"
    \o Fence \o "kql\n" \o q \o "\n" \o Fence \o "\n"
    \o "\nOutput the corrected query:"

RECURSIVE DashedErrors(_)
\* the loop writing "  - %v\n" for every error
DashedErrors(errors) ==
    IF errors = <<>> THEN ""
    ELSE "  - " \o Head(errors) \o "\n" \o DashedErrors(Tail(errors))

\* the report of fix --dry-run
FixDryRunReport(q, fixed, errors) ==
    "=== Original Query ===\n" \o q \o "\n\n"
    \o "=== Suggested Fix ===\n" \o fixed \o "\n\n"
    \o (IF Len(errors) = 0
        THEN CheckMark \o " Suggested fix is syntactically valid\n"
        ELSE WarningSign \o " Suggested fix still has errors:\n" \o DashedErrors(errors))

\* the message of fix --strict for a fix that still has errors
FixStrictMessage(attempts, errors) ==
    "Error: failed to generate valid fix after " \o FmtInt(attempts) \o " attempt(s)\n"
    \o DashedErrors(errors)

\* the message of fix, without --strict, for a fix that still has errors
FixWarningMessage(attempts) ==
    WarningSign \o " Warning: fix still has syntax errors (after "
    \o FmtInt(attempts) \o " attempt(s))\n"

\* ------------------------------------------------------------------------
\* TemperatureScheduler (inside GenerateWithValidation)
\* ------------------------------------------------------------------------

\* retryTemp counting the increment once per attempt instead of once per retry
retryTempOffByOne(base, attempt, tempCfg) ==
    IF attempt > 1 /\ tempCfg.Adjust
    THEN LET t == base + attempt * tempCfg.Increment
         IN  IF t > tempCfg.Max THEN tempCfg.Max ELSE t
    ELSE base

\* the temperature computed for an attempt, in tenths
retryTemp(base, attempt, tempCfg) ==
    IF attempt > 1 /\ tempCfg.Adjust
    THEN LET t == base + (attempt - 1) * tempCfg.Increment
         IN  IF t > tempCfg.Max THEN tempCfg.Max ELSE t
    ELSE base

\* ------------------------------------------------------------------------
\* Inputs of one run
\* ------------------------------------------------------------------------

\* values of ValidationConfig.Retries (flag --retries, config file)
RetriesRange == (0 - NegRetries)..MaxRetries

\* base temperatures (flag --temperature), in tenths
BaseTemps == {2, 9}

\* values of TempAdjustConfig.Increment (config file, flag), in tenths
Increments == {0 - 1, 1, 3}

\* values of TempAdjustConfig.Max, in tenths
TempMaxes == {5, 8}

FeedbackConfig == [Errors : BOOLEAN, Hints : BOOLEAN, Examples : BOOLEAN, Progressive : BOOLEAN]

TempAdjustConfig == [Adjust : BOOLEAN, Increment : Increments, Max : TempMaxes]

\* the configurations GenerateWithValidation is called with on its own; it
\* does not read Strict
ValidationConfig ==
    [Enabled : BOOLEAN, Strict : {FALSE}, Retries : RetriesRange,
     Feedback : FeedbackConfig, Temp : TempAdjustConfig]

Requests ==
    { GenerateRequest("count rows by State", "", ""),
      GenerateRequest("count rows by State", "StormEvents", "State, StartTime") }

\* raw texts the provider can answer with
Responses ==
    { "StormEvents | count",
      Fence \o "kql\nStormEvents | where (State == 'TX'\n" \o Fence,
      "StormEvents\n| summarize by\n\nThis query groups the rows." }

\* errors the provider can fail with
ProviderErrors == {"connection refused"}

\* the error of a request made with a context that is done
ContextError == "context deadline exceeded"

\* ------------------------------------------------------------------------
\* Configuration layers (DefaultValidationConfig, MergeFileConfig,
\* buildValidationConfig)
\* ------------------------------------------------------------------------

DefaultValidationRetries == 2

\* DefaultRetryTempIncrement (0.1), in tenths
DefaultRetryTempIncrement == 1

\* DefaultRetryTempMax (0.8), in tenths
DefaultRetryTempMax == 8

DefaultValidationConfig ==
    [Enabled |-> TRUE, Strict |-> FALSE, Retries |-> DefaultValidationRetries,
     Feedback |-> [Errors |-> TRUE, Hints |-> TRUE, Examples |-> TRUE, Progressive |-> TRUE],
     Temp |-> [Adjust |-> TRUE, Increment |-> DefaultRetryTempIncrement,
               Max |-> DefaultRetryTempMax]]

\* A nil pointer, and a pointer to v: a setting of the config file that is
\* absent or present, a valued flag that is not given or given
Nil == <<>>

Ptr(v) == <<v>>

\* the value p points to, or v when p is nil
OrElse(p, v) == IF p = Nil THEN v ELSE p[1]

\* a config file that sets nothing in its validation section
EmptyFileConfig ==
    [Enabled |-> Nil, Strict |-> Nil, Retries |-> Nil,
     Feedback |-> [Errors |-> Nil, Hints |-> Nil, Examples |-> Nil, Progressive |-> Nil],
     Temperature |-> [Adjust |-> Nil, Increment |-> Nil, Max |-> Nil]]

\* MergeFileConfig, the validation settings: every setting the file has
\* replaces the value of cfg; f is nil when there is no config file
MergeFileConfig(c, f) ==
    IF f = Nil THEN c
    ELSE LET v == f[1] IN
         [Enabled |-> OrElse(v.Enabled, c.Enabled),
          Strict |-> OrElse(v.Strict, c.Strict),
          Retries |-> OrElse(v.Retries, c.Retries),
          Feedback |-> [Errors |-> OrElse(v.Feedback.Errors, c.Feedback.Errors),
                        Hints |-> OrElse(v.Feedback.Hints, c.Feedback.Hints),
                        Examples |-> OrElse(v.Feedback.Examples, c.Feedback.Examples),
                        Progressive |-> OrElse(v.Feedback.Progressive, c.Feedback.Progressive)],
          Temp |-> [Adjust |-> OrElse(v.Temperature.Adjust, c.Temp.Adjust),
                    Increment |-> OrElse(v.Temperature.Increment, c.Temp.Increment),
                    Max |-> OrElse(v.Temperature.Max, c.Temp.Max)]]

\* a command line that gives no flag and names no file
NoArgs ==
    [preset |-> "", noValidate |-> FALSE, strict |-> FALSE, retries |-> Nil,
     noFeedback |-> FALSE, noFeedbackErrors |-> FALSE, noFeedbackHints |-> FALSE,
     noFeedbackExamples |-> FALSE, noFeedbackProg |-> FALSE,
     noTempAdjust |-> FALSE, tempIncrement |-> Nil, tempMax |-> Nil, dryRun |-> FALSE,
     files |-> <<>>, quiet |-> FALSE, format |-> "text"]

\* the flag variables of generate after the command line is parsed: a flag
\* that is not given holds its default
generateRetries(a) == OrElse(a.retries, 2)

generateTempIncrement(a) == OrElse(a.tempIncrement, 0)

generateTempMax(a) == OrElse(a.tempMax, 0)

\* the flag variables of fix
fixRetries(a) == OrElse(a.retries, 2)

\* an environment without the variables the program reads
NoEnv == [KQL_VALIDATE |-> "", KQL_VALIDATE_STRICT |-> ""]

\* the preset switch of buildValidationConfig
applyPreset(c, preset) ==
    CASE preset = "minimal" ->
            [c EXCEPT !.Retries = 0, !.Feedback.Hints = FALSE, !.Feedback.Examples = FALSE]
      [] preset = "thorough" ->
            [c EXCEPT !.Retries = 5, !.Feedback.Progressive = TRUE]
      [] preset = "strict" ->
            [c EXCEPT !.Strict = TRUE, !.Retries = 3]
      [] OTHER -> c

\* the feedback flags of buildValidationConfig
applyFeedbackFlags(fb, a) ==
    IF a.noFeedback
    THEN [Errors |-> FALSE, Hints |-> FALSE, Examples |-> FALSE, Progressive |-> FALSE]
    ELSE [Errors |-> fb.Errors /\ ~a.noFeedbackErrors,
          Hints |-> fb.Hints /\ ~a.noFeedbackHints,
          Examples |-> fb.Examples /\ ~a.noFeedbackExamples,
          Progressive |-> fb.Progressive /\ ~a.noFeedbackProg]

\* the temperature flags of buildValidationConfig
applyTempFlags(t, a) ==
    [Adjust |-> t.Adjust /\ ~a.noTempAdjust,
     Increment |-> IF generateTempIncrement(a) > 0 THEN generateTempIncrement(a)
                   ELSE t.Increment,
     Max |-> IF generateTempMax(a) > 0 THEN generateTempMax(a) ELSE t.Max]

\* buildValidationConfig: preset, then flags, then environment
buildValidationConfig(base, a, e) ==
    LET c == applyPreset(base, a.preset) IN
    [Enabled |-> c.Enabled /\ ~a.noValidate /\ e.KQL_VALIDATE \notin {"false", "0"},
     Strict |-> c.Strict \/ a.strict \/ e.KQL_VALIDATE_STRICT \in {"true", "1"},
     Retries |-> generateRetries(a),
     Feedback |-> applyFeedbackFlags(c.Feedback, a),
     Temp |-> applyTempFlags(c.Temp, a)]

\* ------------------------------------------------------------------------
\* State
\* ------------------------------------------------------------------------

VARIABLES
    cfg,          \* ValidationConfig of the run
    req,          \* GenerateRequest of the run
    baseTemp,     \* baseTemp argument (cfg.Temperature of the ai.Config)
    provider,     \* the Provider object: its temperature field
    pc,           \* position of GenerateWithValidation
    attempt,      \* loop variable
    prompt,       \* prompt of the current attempt
    temp,         \* temperature computed for the current attempt
    response,     \* raw text of the last provider answer
    lastKQL,      \* candidate of the last attempt
    lastErrors,   \* ValidationErrors of the last failed attempt
    ret,          \* what the function returned: "none", "result" or "error"
    result,       \* the GenerateResult returned (when ret = "result")
    err,          \* the error returned (when ret = "error")
    calls,        \* number of provider.Complete calls made
    sent,         \* the request the provider issued for the last call
    perr,         \* the error the provider returned for the last call ("" is nil)
    validations,  \* number of kqlparser.Parse calls made
    validated,    \* the text handed to the last kqlparser.Parse call
    parsed,       \* the diagnostics the parser produced for it
    command,      \* the command the process runs: "generate" or "fix" ("" when
                  \* a function is called on its own)
    args,         \* the command line: switches, and valued flags as given
    fileCfg,      \* the validation section of ~/.kql/config.yaml, if any
    env,          \* the environment variables the program reads
    stdout,       \* text written to standard output
    stderr,       \* text of the final message written to standard error
    exitCode,     \* exit status of the process; -1 while it runs
    query,        \* fix: the query given by the user; lint: the text on
                  \* standard input
    currentQuery, \* fix: the query the next prompt is built from
    currentErrors,\* fix: the parser errors the next prompt is built from
    fixedQuery,   \* fix: the candidate of the last attempt
    fixErrors,    \* fix: the parser errors of the last candidate
    ctxDone,      \* the context of the run is cancelled or past its deadline
    allDiagnostics \* lint: the diagnostics collected over all inputs

vars == <<cfg, req, baseTemp, provider, pc, attempt, prompt, temp, response, lastKQL,
          lastErrors, ret, result, err, calls, sent, perr, validations, validated, parsed,
          command, args, fileCfg, env, stdout, stderr, exitCode,
          query, currentQuery, currentErrors, fixedQuery, fixErrors, ctxDone,
          allDiagnostics>>

inputs == <<cfg, req, baseTemp, provider>>

\* the state of the command around GenerateWithValidation
cli == <<command, args, fileCfg, env, stdout, stderr, exitCode,
         query, currentQuery, currentErrors, fixedQuery, fixErrors, ctxDone,
         allDiagnostics>>

GenerateResult(kql, valid, errors, attempts) ==
    [Query |-> kql, Valid |-> valid, Errors |-> errors, Attempts |-> attempts]

\* NewOllamaProvider / NewInstructLabProvider / NewVertexProvider /
\* NewAzureProvider: the temperature is fixed when the provider is built
NewProvider(temperature) == [temperature |-> temperature]

\* the variables of the controller before its first step
ControllerAtRest ==
    /\ attempt = 0
    /\ prompt = ""
    /\ temp = 0
    /\ response = ""
    /\ lastKQL = ""
    /\ lastErrors = <<>>
    /\ ret = "none"
    /\ result = GenerateResult("", FALSE, <<>>, 0)
    /\ err = ""
    /\ calls = 0
    /\ sent = [prompt |-> "", temperature |-> 0]
    /\ perr = ""
    /\ validations = 0
    /\ validated = ""
    /\ parsed = <<>>

\* nothing written yet, the process runs, the locals of fix unset, the
\* context live
ProcessAtRest ==
    /\ ctxDone = FALSE
    /\ allDiagnostics = <<>>
    /\ stdout = ""
    /\ stderr = ""
    /\ exitCode = 0 - 1
    /\ currentQuery = ""
    /\ currentErrors = <<>>
    /\ fixedQuery = ""
    /\ fixErrors = <<>>

\* GenerateWithValidation called on its own, with any configuration
Init ==
    /\ cfg \in ValidationConfig
    /\ req \in Requests
    /\ baseTemp \in BaseTemps
    /\ provider = NewProvider(baseTemp)
    /\ pc = "entry"
    /\ ControllerAtRest
    /\ command = ""
    /\ args = NoArgs
    /\ fileCfg = Nil
    /\ env = NoEnv
    /\ query = ""
    /\ ProcessAtRest

\* ------------------------------------------------------------------------
\* Provider.Complete
\* ------------------------------------------------------------------------

\* Complete(ctx, prompt): the provider issues a request with the prompt and
\* its own temperature field, and answers with a text (e = "") or fails
\* with the error e; the request carries ctx, and a request whose context is
\* done fails with the error of the context
Complete(p, e) ==
    /\ IF ctxDone THEN e = ContextError ELSE e \in ProviderErrors \cup {""}
    /\ calls' = calls + 1
    /\ sent' = [prompt |-> p, temperature |-> provider.temperature]
    /\ perr' = e

\* ------------------------------------------------------------------------
\* GenerateWithValidation
\* ------------------------------------------------------------------------

\* maxAttempts with one attempt too many
maxAttemptsOffByOne == cfg.Retries + 2

maxAttempts == cfg.Retries + 1

\* validation disabled: build the prompt, then call the provider once
EnterDisabled ==
    /\ pc = "entry"
    /\ ~cfg.Enabled
    /\ prompt' = buildPrompt(req)
    /\ pc' = "completeOnce"
    /\ UNCHANGED <<inputs, cli, attempt, temp, response, lastKQL, lastErrors, ret, result, err,
                   calls, sent, perr, validations, validated, parsed>>

\* CompleteOnceOK that validates the candidate although validation is off
CompleteOnceOKValidates ==
    /\ pc = "completeOnce"
    /\ \E r \in Responses :
          /\ Complete(prompt, "")
          /\ response' = r
          /\ result' = GenerateResult(extractKQL(r), Len(Parse(extractKQL(r))) = 0, <<>>, 1)
    /\ ret' = "result"
    /\ pc' = "return"
    /\ UNCHANGED <<inputs, cli, attempt, prompt, temp, lastKQL, lastErrors, err,
                   validations, validated, parsed>>

\* validation disabled, the provider answers: return the candidate unchecked
CompleteOnceOK ==
    /\ pc = "completeOnce"
    /\ \E r \in Responses :
          /\ Complete(prompt, "")
          /\ response' = r
          /\ result' = GenerateResult(extractKQL(r), TRUE, <<>>, 1)
    /\ ret' = "result"
    /\ pc' = "return"
    /\ UNCHANGED <<inputs, cli, attempt, prompt, temp, lastKQL, lastErrors, err,
                   validations, validated, parsed>>

\* validation disabled, the provider fails
CompleteOnceErr ==
    /\ pc = "completeOnce"
    /\ \E e \in ProviderErrors \cup {ContextError} :
          /\ Complete(prompt, e)
          /\ err' = "generating query: " \o e
    /\ ret' = "error"
    /\ pc' = "return"
    /\ UNCHANGED <<inputs, cli, attempt, prompt, temp, response, lastKQL, lastErrors, result,
                   validations, validated, parsed>>

\* validation enabled: enter the loop
EnterEnabled ==
    /\ pc = "entry"
    /\ cfg.Enabled
    /\ lastKQL' = ""
    /\ lastErrors' = <<>>
    /\ attempt' = 1
    /\ pc' = "loop"
    /\ UNCHANGED <<inputs, cli, prompt, temp, response, ret, result, err,
                   calls, sent, perr, validations, validated, parsed>>

\* BeginAttempt that writes the feedback of a retry below the prompt of the
\* attempt before instead of below the initial prompt
BeginAttemptChained ==
    /\ pc = "loop"
    /\ attempt <= maxAttempts
    /\ IF attempt = 1
       THEN prompt' = buildPrompt(req)
       ELSE \E hints \in getErrorHints(lastErrors) :
            \E examples \in getErrorExamples(lastErrors, attempt, cfg.Feedback.Progressive) :
               prompt' = prompt \o SubSeq(
                            buildRetryPrompt(req, lastKQL, lastErrors, attempt, cfg.Feedback,
                                             hints, examples),
                            Len(buildPrompt(req)) + 1,
                            Len(buildRetryPrompt(req, lastKQL, lastErrors, attempt,
                                                 cfg.Feedback, hints, examples)))
    /\ temp' = retryTemp(baseTemp, attempt, cfg.Temp)
    /\ pc' = "complete"
    /\ UNCHANGED <<inputs, cli, attempt, response, lastKQL, lastErrors, ret, result, err,
                   calls, sent, perr, validations, validated, parsed>>

\* top of a loop iteration: build the prompt and compute the temperature
BeginAttempt ==
    /\ pc = "loop"
    /\ attempt <= maxAttempts
    /\ IF attempt = 1
       THEN prompt' = buildPrompt(req)
       ELSE \E hints \in getErrorHints(lastErrors) :
            \E examples \in getErrorExamples(lastErrors, attempt, cfg.Feedback.Progressive) :
               prompt' = buildRetryPrompt(req, lastKQL, lastErrors, attempt, cfg.Feedback,
                                          hints, examples)
    /\ temp' = retryTemp(baseTemp, attempt, cfg.Temp)
    /\ pc' = "complete"
    /\ UNCHANGED <<inputs, cli, attempt, response, lastKQL, lastErrors, ret, result, err,
                   calls, sent, perr, validations, validated, parsed>>

\* the provider answers the call of this attempt
CompleteOK ==
    /\ pc = "complete"
    /\ \E r \in Responses :
          /\ Complete(prompt, "")
          /\ response' = r
    /\ pc' = "validate"
    /\ UNCHANGED <<inputs, cli, attempt, prompt, temp, lastKQL, lastErrors, ret, result, err,
                   validations, validated, parsed>>

\* CompleteErr that treats a provider error like a validation failure and
\* goes on to the next attempt
CompleteErrRetries ==
    /\ pc = "complete"
    /\ \E e \in ProviderErrors \cup {ContextError} : Complete(prompt, e)
    /\ attempt' = attempt + 1
    /\ pc' = "loop"
    /\ UNCHANGED <<inputs, cli, prompt, temp, response, lastKQL, lastErrors, ret, result, err,
                   validations, validated, parsed>>

\* the provider fails the call of this attempt: the run is aborted
CompleteErr ==
    /\ pc = "complete"
    /\ \E e \in ProviderErrors \cup {ContextError} :
          /\ Complete(prompt, e)
          /\ err' = "generating query (attempt " \o FmtInt(attempt) \o "): " \o e
    /\ ret' = "error"
    /\ pc' = "return"
    /\ UNCHANGED <<inputs, cli, attempt, prompt, temp, response, lastKQL, lastErrors, result,
                   validations, validated, parsed>>

\* ValidateOK that reports the attempt budget instead of the attempt number
ValidateOKReportsMax ==
    /\ pc = "validate"
    /\ LET kql == extractKQL(response) IN
          /\ Len(Parse(kql)) = 0
          /\ lastKQL' = kql
          /\ validated' = kql
          /\ parsed' = ParseDiags(kql)
          /\ result' = GenerateResult(kql, TRUE, <<>>, maxAttempts)
    /\ validations' = validations + 1
    /\ ret' = "result"
    /\ pc' = "return"
    /\ UNCHANGED <<inputs, cli, attempt, prompt, temp, response, lastErrors, err, calls, sent, perr>>

\* extract the candidate and validate it: no diagnostics, return it
ValidateOK ==
    /\ pc = "validate"
    /\ LET kql == extractKQL(response) IN
          /\ Len(Parse(kql)) = 0
          /\ lastKQL' = kql
          /\ validated' = kql
          /\ parsed' = ParseDiags(kql)
          /\ result' = GenerateResult(kql, TRUE, <<>>, attempt)
    /\ validations' = validations + 1
    /\ ret' = "result"
    /\ pc' = "return"
    /\ UNCHANGED <<inputs, cli, attempt, prompt, temp, response, lastErrors, err, calls, sent, perr>>

\* ValidateFail that appends the new errors to those of earlier attempts
ValidateFailAccumulates ==
    /\ pc = "validate"
    /\ LET kql == extractKQL(response)
           errors == Parse(kql)
       IN /\ Len(errors) # 0
          /\ lastKQL' = kql
          /\ validated' = kql
          /\ parsed' = ParseDiags(kql)
          /\ lastErrors' = lastErrors \o
                            [i \in 1..Len(errors) |-> parseErrorToValidationError(errors[i])]
    /\ validations' = validations + 1
    /\ attempt' = attempt + 1
    /\ pc' = "loop"
    /\ UNCHANGED <<inputs, cli, prompt, temp, response, ret, result, err, calls, sent, perr>>

\* extract the candidate and validate it: diagnostics, record them and loop
ValidateFail ==
    /\ pc = "validate"
    /\ LET kql == extractKQL(response)
           errors == Parse(kql)
       IN /\ Len(errors) # 0
          /\ lastKQL' = kql
          /\ validated' = kql
          /\ parsed' = ParseDiags(kql)
          /\ lastErrors' = [i \in 1..Len(errors) |-> parseErrorToValidationError(errors[i])]
    /\ validations' = validations + 1
    /\ attempt' = attempt + 1
    /\ pc' = "loop"
    /\ UNCHANGED <<inputs, cli, prompt, temp, response, ret, result, err, calls, sent, perr>>

\* the loop ended without a valid candidate
Exhausted ==
    /\ pc = "loop"
    /\ attempt > maxAttempts
    /\ result' = GenerateResult(lastKQL, FALSE, lastErrors, maxAttempts)
    /\ ret' = "result"
    /\ pc' = "return"
    /\ UNCHANGED <<inputs, cli, attempt, prompt, temp, response, lastKQL, lastErrors, err,
                   calls, sent, perr, validations, validated, parsed>>

Next ==
    \/ EnterDisabled
    \/ CompleteOnceOK
    \/ CompleteOnceErr
    \/ EnterEnabled
    \/ BeginAttempt
    \/ CompleteOK
    \/ CompleteErr
    \/ ValidateOK
    \/ ValidateFail
    \/ Exhausted

Spec == Init /\ [][Next]_vars

\* ------------------------------------------------------------------------
\* The commands kql generate and kql fix
\* ------------------------------------------------------------------------

\* presets named on the command line ("" when --preset is not given)
Presets == {"", "minimal", "thorough", "strict"}

\* values given with --retries (Nil when the flag is not given)
RetriesArgs == {Nil, Ptr(1)}

\* command lines of generate
GenerateArgs ==
    {[NoArgs EXCEPT !.preset = p, !.noValidate = nv, !.strict = st, !.retries = r] :
        p \in Presets, nv \in BOOLEAN, st \in BOOLEAN, r \in RetriesArgs}

\* config files: none, one that turns validation off and sets retries, one
\* that turns validation on
FileConfigs ==
    { Nil,
      Ptr([EmptyFileConfig EXCEPT !.Enabled = Ptr(FALSE), !.Retries = Ptr(1)]),
      Ptr([EmptyFileConfig EXCEPT !.Enabled = Ptr(TRUE)]) }

\* environments
Envs == {[NoEnv EXCEPT !.KQL_VALIDATE = v] : v \in {"", "true", "false"}}

\* the request of the generate command (description, --table, --schema)
CommandRequest == GenerateRequest("count rows by State", "StormEvents", "")

\* --temperature of the commands, in tenths
CommandTemperature == 2

\* values given to fix with --retries
FixRetriesArgs == {Nil, Ptr(0), Ptr(1), Ptr(0 - 1)}

\* command lines of fix
FixArgs ==
    {[NoArgs EXCEPT !.retries = r, !.strict = st, !.dryRun = dr] :
        r \in FixRetriesArgs, st \in BOOLEAN, dr \in BOOLEAN}

\* queries given to fix
Queries ==
    { "StormEvents | count",
      "StormEvents | where (State == 'TX'",
      "StormEvents\n| summarize by" }

\* a process started as kql generate or as kql fix
InitCmd ==
    /\ command \in {"generate", "fix"}
    /\ IF command = "generate"
       THEN /\ args \in GenerateArgs
            /\ fileCfg \in FileConfigs
            /\ env \in Envs
            /\ req = CommandRequest
            /\ query = ""
       ELSE /\ args \in FixArgs
            /\ fileCfg = Nil
            /\ env = NoEnv
            /\ req = GenerateRequest("", "", "")
            /\ query \in Queries
    /\ cfg = DefaultValidationConfig
    /\ baseTemp = CommandTemperature
    /\ provider = NewProvider(baseTemp)
    /\ pc = "main"
    /\ ControllerAtRest
    /\ ProcessAtRest

\* runGenerate up to the call of GenerateWithValidation: the validation
\* configuration is built from the defaults, the config file, the flags and
\* the environment
RunGenerate ==
    /\ pc = "main"
    /\ command = "generate"
    /\ cfg' = buildValidationConfig(MergeFileConfig(DefaultValidationConfig, fileCfg), args, env)
    /\ pc' = "entry"
    /\ UNCHANGED <<req, baseTemp, provider, cli, attempt, prompt, temp, response, lastKQL,
                   lastErrors, ret, result, err, calls, sent, perr, validations, validated,
                   parsed>>

\* the positions at which the context made by context.WithTimeout exists and
\* the command has not yet left the code that uses it
ContextLive ==
    pc \in {"entry", "completeOnce", "loop", "complete", "validate",
            "fixLoop", "fixComplete", "fixValidate"}

\* the deadline of the context (--timeout) passes
DeadlinePasses ==
    /\ ContextLive
    /\ ~ctxDone
    /\ ctxDone' = TRUE
    /\ UNCHANGED <<inputs, command, args, fileCfg, env, stdout, stderr, exitCode,
                   query, currentQuery, currentErrors, fixedQuery, fixErrors, allDiagnostics,
                   pc, attempt, prompt, temp, response, lastKQL, lastErrors, ret, result,
                   err, calls, sent, perr, validations, validated, parsed>>

\* GenerateWithValidation returned an error: runGenerate returns it and the
\* process exits with status 1
GenerateFailed ==
    /\ pc = "return"
    /\ command = "generate"
    /\ ret = "error"
    /\ exitCode' = 1
    /\ pc' = "exit"
    /\ UNCHANGED <<inputs, ctxDone, allDiagnostics, command, args, fileCfg, env, stdout, stderr, query, currentQuery,
                   currentErrors, fixedQuery, fixErrors, attempt, prompt, temp, response,
                   lastKQL, lastErrors, ret, result, err, calls, sent, perr, validations,
                   validated, parsed>>

\* GenerateStrictExit that prints the candidate before it exits
GenerateStrictExitPrints ==
    /\ pc = "return"
    /\ command = "generate"
    /\ ret = "result"
    /\ ~result.Valid
    /\ cfg.Strict
    /\ stderr' = stderr \o FormatValidationError(result)
    /\ stdout' = stdout \o result.Query \o "\n"
    /\ exitCode' = 1
    /\ pc' = "exit"
    /\ UNCHANGED <<inputs, ctxDone, allDiagnostics, command, args, fileCfg, env, query, currentQuery,
                   currentErrors, fixedQuery, fixErrors, attempt, prompt, temp, response,
                   lastKQL, lastErrors, ret, result, err, calls, sent, perr, validations,
                   validated, parsed>>

\* the result is not valid and Strict is set: error message, os.Exit(1)
GenerateStrictExit ==
    /\ pc = "return"
    /\ command = "generate"
    /\ ret = "result"
    /\ ~result.Valid
    /\ cfg.Strict
    /\ stderr' = stderr \o FormatValidationError(result)
    /\ exitCode' = 1
    /\ pc' = "exit"
    /\ UNCHANGED <<inputs, ctxDone, allDiagnostics, command, args, fileCfg, env, stdout, query, currentQuery,
                   currentErrors, fixedQuery, fixErrors, attempt, prompt, temp, response,
                   lastKQL, lastErrors, ret, result, err, calls, sent, perr, validations,
                   validated, parsed>>

\* the result is not valid and Strict is not set: warning, then the candidate
GenerateWarnAndPrint ==
    /\ pc = "return"
    /\ command = "generate"
    /\ ret = "result"
    /\ ~result.Valid
    /\ ~cfg.Strict
    /\ stderr' = stderr \o FormatValidationWarning(result)
    /\ stdout' = stdout \o result.Query \o "\n"
    /\ exitCode' = 0
    /\ pc' = "exit"
    /\ UNCHANGED <<inputs, ctxDone, allDiagnostics, command, args, fileCfg, env, query, currentQuery,
                   currentErrors, fixedQuery, fixErrors, attempt, prompt, temp, response,
                   lastKQL, lastErrors, ret, result, err, calls, sent, perr, validations,
                   validated, parsed>>

\* the result is valid: the candidate
GeneratePrint ==
    /\ pc = "return"
    /\ command = "generate"
    /\ ret = "result"
    /\ result.Valid
    /\ stdout' = stdout \o result.Query \o "\n"
    /\ exitCode' = 0
    /\ pc' = "exit"
    /\ UNCHANGED <<inputs, ctxDone, allDiagnostics, command, args, fileCfg, env, stderr, query, currentQuery,
                   currentErrors, fixedQuery, fixErrors, attempt, prompt, temp, response,
                   lastKQL, lastErrors, ret, result, err, calls, sent, perr, validations,
                   validated, parsed>>

\* what the fix command never assigns
fixFrame == <<cfg, req, baseTemp, provider, temp, lastKQL, lastErrors, result,
              command, args, fileCfg, env, query, ctxDone, allDiagnostics>>

fixMaxAttempts == fixRetries(args) + 1

\* runFix, the query parses: it is printed as it is
FixNoErrors ==
    /\ pc = "main"
    /\ command = "fix"
    /\ Len(ParseAs("input", query)) = 0
    /\ validations' = validations + 1
    /\ validated' = query
    /\ parsed' = ParseDiags(query)
    /\ stdout' = stdout \o query \o "\n"
    /\ exitCode' = 0
    /\ pc' = "exit"
    /\ UNCHANGED <<fixFrame, attempt, prompt, response, ret, err, calls, sent, perr, stderr,
                   currentQuery, currentErrors, fixedQuery, fixErrors>>

\* runFix, the query has errors: the loop starts from the query and its errors
FixStart ==
    /\ pc = "main"
    /\ command = "fix"
    /\ Len(ParseAs("input", query)) # 0
    /\ validations' = validations + 1
    /\ validated' = query
    /\ parsed' = ParseDiags(query)
    /\ fixedQuery' = ""
    /\ fixErrors' = <<>>
    /\ currentQuery' = query
    /\ currentErrors' = ParseAs("input", query)
    /\ attempt' = 1
    /\ pc' = "fixLoop"
    /\ UNCHANGED <<fixFrame, prompt, response, ret, err, calls, sent, perr,
                   stdout, stderr, exitCode>>

\* FixBeginAttempt that builds every prompt from the query of the user
FixBeginAttemptFromOriginal ==
    /\ pc = "fixLoop"
    /\ attempt <= fixMaxAttempts
    /\ prompt' = buildFixPrompt(query, buildErrorContext(query, ParseAs("input", query)))
    /\ pc' = "fixComplete"
    /\ UNCHANGED <<fixFrame, attempt, response, ret, err, calls, sent, perr, validations,
                   validated, parsed, stdout, stderr, exitCode,
                   currentQuery, currentErrors, fixedQuery, fixErrors>>

\* top of a loop iteration of fix: the prompt from the current query and errors
FixBeginAttempt ==
    /\ pc = "fixLoop"
    /\ attempt <= fixMaxAttempts
    /\ prompt' = buildFixPrompt(currentQuery, buildErrorContext(currentQuery, currentErrors))
    /\ pc' = "fixComplete"
    /\ UNCHANGED <<fixFrame, attempt, response, ret, err, calls, sent, perr, validations,
                   validated, parsed, stdout, stderr, exitCode,
                   currentQuery, currentErrors, fixedQuery, fixErrors>>

\* the provider answers the call of this attempt
FixCompleteOK ==
    /\ pc = "fixComplete"
    /\ \E r \in Responses :
          /\ Complete(prompt, "")
          /\ response' = r
    /\ pc' = "fixValidate"
    /\ UNCHANGED <<fixFrame, attempt, prompt, ret, err, validations, validated, parsed,
                   stdout, stderr, exitCode, currentQuery, currentErrors, fixedQuery,
                   fixErrors>>

\* the provider fails: runFix returns the error, the process exits with 1
FixCompleteErr ==
    /\ pc = "fixComplete"
    /\ \E e \in ProviderErrors \cup {ContextError} :
          /\ Complete(prompt, e)
          /\ err' = "getting fix suggestion (attempt " \o FmtInt(attempt) \o "): " \o e
    /\ ret' = "error"
    /\ exitCode' = 1
    /\ pc' = "exit"
    /\ UNCHANGED <<fixFrame, attempt, prompt, response, validations, validated, parsed,
                   stdout, stderr, currentQuery, currentErrors, fixedQuery, fixErrors>>

\* the candidate parses: leave the loop
FixValidateOK ==
    /\ pc = "fixValidate"
    /\ LET fixed == extractFixedQuery(response) IN
          /\ Len(ParseAs("fixed", fixed)) = 0
          /\ fixedQuery' = fixed
          /\ validated' = fixed
          /\ parsed' = ParseDiags(fixed)
    /\ validations' = validations + 1
    /\ fixErrors' = <<>>
    /\ pc' = "fixReport"
    /\ UNCHANGED <<fixFrame, attempt, prompt, response, ret, err, calls, sent, perr,
                   stdout, stderr, exitCode, currentQuery, currentErrors>>

\* the candidate has errors: it becomes the current query of the next attempt
FixValidateFail ==
    /\ pc = "fixValidate"
    /\ LET fixed == extractFixedQuery(response)
           errors == ParseAs("fixed", fixed)
       IN /\ Len(errors) # 0
          /\ fixedQuery' = fixed
          /\ validated' = fixed
          /\ parsed' = ParseDiags(fixed)
          /\ fixErrors' = errors
          /\ currentQuery' = fixed
          /\ currentErrors' = errors
    /\ validations' = validations + 1
    /\ attempt' = attempt + 1
    /\ pc' = "fixLoop"
    /\ UNCHANGED <<fixFrame, prompt, response, ret, err, calls, sent, perr,
                   stdout, stderr, exitCode>>

\* the loop of fix ended without a valid candidate
FixExhausted ==
    /\ pc = "fixLoop"
    /\ attempt > fixMaxAttempts
    /\ pc' = "fixReport"
    /\ UNCHANGED <<fixFrame, attempt, prompt, response, ret, err, calls, sent, perr,
                   validations, validated, parsed, stdout, stderr, exitCode,
                   currentQuery, currentErrors, fixedQuery, fixErrors>>

\* --dry-run: the report goes to standard error and runFix returns nil
FixDryRun ==
    /\ pc = "fixReport"
    /\ args.dryRun
    /\ stderr' = stderr \o FixDryRunReport(query, fixedQuery, fixErrors)
    /\ exitCode' = 0
    /\ pc' = "exit"
    /\ UNCHANGED <<fixFrame, attempt, prompt, response, ret, err, calls, sent, perr,
                   validations, validated, parsed, stdout,
                   currentQuery, currentErrors, fixedQuery, fixErrors>>

\* the fix still has errors and --strict is set: error message, os.Exit(1)
FixStrictExit ==
    /\ pc = "fixReport"
    /\ ~args.dryRun
    /\ Len(fixErrors) > 0
    /\ args.strict
    /\ stderr' = stderr \o FixStrictMessage(fixMaxAttempts, fixErrors)
    /\ exitCode' = 1
    /\ pc' = "exit"
    /\ UNCHANGED <<fixFrame, attempt, prompt, response, ret, err, calls, sent, perr,
                   validations, validated, parsed, stdout,
                   currentQuery, currentErrors, fixedQuery, fixErrors>>

\* the fix still has errors and --strict is not set: warning, then the fix
FixWarnAndPrint ==
    /\ pc = "fixReport"
    /\ ~args.dryRun
    /\ Len(fixErrors) > 0
    /\ ~args.strict
    /\ stderr' = stderr \o FixWarningMessage(fixMaxAttempts)
    /\ stdout' = stdout \o fixedQuery \o "\n"
    /\ exitCode' = 0
    /\ pc' = "exit"
    /\ UNCHANGED <<fixFrame, attempt, prompt, response, ret, err, calls, sent, perr,
                   validations, validated, parsed,
                   currentQuery, currentErrors, fixedQuery, fixErrors>>

\* no errors are left: the fix
FixPrint ==
    /\ pc = "fixReport"
    /\ ~args.dryRun
    /\ Len(fixErrors) = 0
    /\ stdout' = stdout \o fixedQuery \o "\n"
    /\ exitCode' = 0
    /\ pc' = "exit"
    /\ UNCHANGED <<fixFrame, attempt, prompt, response, ret, err, calls, sent, perr,
                   validations, validated, parsed, stderr,
                   currentQuery, currentErrors, fixedQuery, fixErrors>>

NextCmd ==
    \/ RunGenerate
    \/ DeadlinePasses
    \/ EnterDisabled
    \/ CompleteOnceOK
    \/ CompleteOnceErr
    \/ EnterEnabled
    \/ BeginAttempt
    \/ CompleteOK
    \/ CompleteErr
    \/ ValidateOK
    \/ ValidateFail
    \/ Exhausted
    \/ GenerateFailed
    \/ GenerateStrictExit
    \/ GenerateWarnAndPrint
    \/ GeneratePrint
    \/ FixNoErrors
    \/ FixStart
    \/ FixBeginAttempt
    \/ FixCompleteOK
    \/ FixCompleteErr
    \/ FixValidateOK
    \/ FixValidateFail
    \/ FixExhausted
    \/ FixDryRun
    \/ FixStrictExit
    \/ FixWarnAndPrint
    \/ FixPrint

\* the commands kql generate and kql fix from start to exit
SpecCmd == InitCmd /\ [][NextCmd]_vars

\* ------------------------------------------------------------------------
\* extractKQL on its own
\* ------------------------------------------------------------------------

\* the pieces the texts are put together from
Pieces == {Fence, BT, "kql", "\n", " ", "T | count", "Note: done"}

RECURSIVE TextsOf(_)
\* the texts of at most n pieces
TextsOf(n) ==
    IF n = 0 THEN {""}
    ELSE LET shorter == TextsOf(n - 1)
         IN  shorter \cup {t \o p : t \in shorter, p \in Pieces}

\* a fenced block: the opening fence line with its tag, the body, the
\* closing fence
Block(tag, body) == Fence \o tag \o "\n" \o body \o "\n" \o Fence

\* the tags of the opening fence lines
BlockTags == {"", "kql", "kusto", "sql"}

\* answers made of one or two fenced blocks, with or without a sentence
\* before them
Documents ==
    LET first == "T | summarize count() by State"
        second == "U | take 1"
        blocks == {Block(t, first) : t \in BlockTags}
                  \cup {Block(t1, first) \o "\n\n" \o Block(t2, second) :
                            t1 \in BlockTags, t2 \in BlockTags}
    IN  blocks \cup {"Sure, the query follows.\n\n" \o b : b \in blocks}

\* answers without a fence: a query, bare or with a backquote on either or
\* both sides, with or without a line before it and lines after it
Answers ==
    LET q == "T | count"
        quoted == {q, BT \o q \o BT, BT \o q, q \o BT}
        before == {"", "Here is the query:\n", "// rows\n"}
        after == {"", "\nNote: done", "\n| take 1\n\nThis query counts the rows.\nT | count"}
    IN  {b \o m \o a : b \in before, m \in quoted, a \in after}

\* extractKQL is called with a text
InitExtract ==
    /\ response \in TextsOf(MaxPieces) \cup Documents \cup Answers
    /\ pc = "extract"
    /\ cfg = DefaultValidationConfig
    /\ req = GenerateRequest("", "", "")
    /\ baseTemp = CommandTemperature
    /\ provider = NewProvider(baseTemp)
    /\ attempt = 0
    /\ prompt = ""
    /\ temp = 0
    /\ lastKQL = ""
    /\ lastErrors = <<>>
    /\ ret = "none"
    /\ result = GenerateResult("", FALSE, <<>>, 0)
    /\ err = ""
    /\ calls = 0
    /\ sent = [prompt |-> "", temperature |-> 0]
    /\ perr = ""
    /\ validations = 0
    /\ validated = ""
    /\ parsed = <<>>
    /\ command = ""
    /\ args = NoArgs
    /\ fileCfg = Nil
    /\ env = NoEnv
    /\ query = ""
    /\ ProcessAtRest

\* kql := extractKQL(response); a panic ends the call without a value
Extract ==
    /\ pc = "extract"
    /\ lastKQL' = extractKQL(response)
    /\ pc' = IF extractKQL(response) = Panic THEN "panic" ELSE "extracted"
    /\ UNCHANGED <<inputs, cli, attempt, prompt, temp, response, lastErrors, ret, result, err,
                   calls, sent, perr, validations, validated, parsed>>

NextExtract == Extract

SpecExtract == InitExtract /\ [][NextExtract]_vars

\* ------------------------------------------------------------------------
\* The command kql lint (cmd/lint.go)
\* ------------------------------------------------------------------------

LintDiagnostic(file, line, column, severity, message) ==
    [File |-> file, Line |-> line, Column |-> column, Severity |-> severity,
     Message |-> message]

\* parseErrorToDiagnostic that takes the second group for the column and the
\* third for the line
parseErrorToDiagnostic_Swapped(filename, errStr) ==
    LET c1 == Index(errStr, ":")
        r1 == SubSeq(errStr, c1 + 1, Len(errStr))
        c2 == Index(r1, ":")
        m2 == SubSeq(r1, 1, c2 - 1)
        r2 == SubSeq(r1, c2 + 1, Len(r1))
        c3 == Index(r2, ":")
        m3 == SubSeq(r2, 1, c3 - 1)
        r3 == SubSeq(r2, c3 + 1, Len(r2))
        m4 == SubSeq(r3, 2, Len(r3))
        matches == /\ c1 >= 2
                   /\ c2 # 0 /\ AllDigits(m2)
                   /\ c3 # 0 /\ AllDigits(m3)
                   /\ HasPrefix(r3, " ")
                   /\ m4 # "" /\ ~Contains(m4, "\n")
    IN  IF matches THEN LintDiagnostic(filename, Atoi(m3), Atoi(m2), "error", m4)
        ELSE LintDiagnostic(filename, 1, 1, "error", errStr)

\* parseErrorToDiagnostic: errPosRegex, ^([^:]+):(\d+):(\d+): (.+)$, and its
\* fallback
parseErrorToDiagnostic(filename, errStr) ==
    LET c1 == Index(errStr, ":")
        r1 == SubSeq(errStr, c1 + 1, Len(errStr))
        c2 == Index(r1, ":")
        m2 == SubSeq(r1, 1, c2 - 1)
        r2 == SubSeq(r1, c2 + 1, Len(r1))
        c3 == Index(r2, ":")
        m3 == SubSeq(r2, 1, c3 - 1)
        r3 == SubSeq(r2, c3 + 1, Len(r2))
        m4 == SubSeq(r3, 2, Len(r3))
        matches == /\ c1 >= 2
                   /\ c2 # 0 /\ AllDigits(m2)
                   /\ c3 # 0 /\ AllDigits(m3)
                   /\ HasPrefix(r3, " ")
                   /\ m4 # "" /\ ~Contains(m4, "\n")
    IN  IF matches THEN LintDiagnostic(filename, Atoi(m2), Atoi(m3), "error", m4)
        ELSE LintDiagnostic(filename, 1, 1, "error", errStr)

\* lintQuery: with --strict the errors and the warnings of
\* kqlparser.ParseAndAnalyze, with their positions; without it the errors of
\* kqlparser.Parse, converted from their text.  The analysis of the
\* environment warns about one of the texts.
lintQuery(filename, q, strict) ==
    LET errors == ParseDiags(q)
        warnings == IF q = "T | project x\n"
                    THEN <<Diag(1, 13, "column 'x' may not exist", TRUE)>> ELSE <<>>
    IN  IF strict
        THEN [i \in 1..Len(errors) |->
                 LintDiagnostic(filename, errors[i].Line, errors[i].Column, "error",
                                errors[i].Message)]
             \o [i \in 1..Len(warnings) |->
                    LintDiagnostic(filename, warnings[i].Line, warnings[i].Column, "warning",
                                   warnings[i].Message)]
        ELSE [i \in 1..Len(ParseAs(filename, q)) |->
                 parseErrorToDiagnostic(filename, ParseAs(filename, q)[i])]

\* the files of the environment and what they hold; any other file cannot
\* be opened
FileSystem ==
    [name \in {"ok.kql", "warn.kql", "bad.kql"} |->
        CASE name = "ok.kql" -> "T | take 10"
          [] name = "warn.kql" -> "T | project x\n"
          [] name = "bad.kql" -> "T | where (("]

\* lintReader: the lines of the text, each followed by a line feed, are
\* linted; reading the texts of the model does not fail
lintReader(filename, text, strict) ==
    [err |-> "",
     diags |-> lintQuery(filename,
                         IF text = "" THEN "" ELSE TrimSuffix(text, "\n") \o "\n", strict)]

lintFile(filename, strict) ==
    IF filename \notin DOMAIN FileSystem
    THEN [err |-> "cannot open file " \o filename \o ": open " \o filename
                  \o ": no such file or directory",
          diags |-> <<>>]
    ELSE lintReader(filename, FileSystem[filename], strict)

\* outputDiagnostics with outputJSON and outputText: what is printed, and
\* the error returned ("" is nil)
outputDiagnostics(diagnostics, hasErrors, a) ==
    LET \* a character as json.Marshal writes it in a string
        escaped(c) ==
            CASE c = "\"" -> "\\\""
              [] c = "\\" -> "\\\\"
              [] c = "\n" -> "\\n"
              [] c = "<" -> "\\u003c"
              [] c = ">" -> "\\u003e"
              [] c = "&" -> "\\u0026"
              [] OTHER -> c
        quoted(t) == Join([i \in 1..Len(t) |-> escaped(CharAt(t, i))], "")
        Marshal(d) ==
            "{\"file\":\"" \o quoted(d.File) \o "\",\"line\":" \o FmtInt(d.Line)
            \o ",\"column\":" \o FmtInt(d.Column)
            \o ",\"severity\":\"" \o quoted(d.Severity)
            \o "\",\"message\":\"" \o quoted(d.Message) \o "\"}"
        outputJSON == Join([i \in 1..Len(diagnostics) |-> Marshal(diagnostics[i]) \o "\n"], "")
        outputText ==
            Join([i \in 1..Len(diagnostics) |->
                     diagnostics[i].File \o ":" \o FmtInt(diagnostics[i].Line) \o ":"
                     \o FmtInt(diagnostics[i].Column) \o ": " \o diagnostics[i].Severity
                     \o ": " \o diagnostics[i].Message \o "\n"], "")
            \o (IF ~a.quiet /\ Len(diagnostics) = 0 THEN "No issues found.\n" ELSE "")
    IN  CASE a.format = "json" -> [err |-> "", out |-> outputJSON]
          [] a.format = "text" -> [err |-> "", out |-> outputText]
          [] OTHER -> [err |-> "unknown format: " \o a.format, out |-> ""]

RECURSIVE lintInputs(_, _, _)
\* the loop of doLint over the arguments: the diagnostics of each input, "-"
\* being standard input, up to the first input that cannot be read
lintInputs(names, stdin, a) ==
    LET append(one, rest) ==
            IF rest.err # "" THEN rest
            ELSE [err |-> "", diags |-> one.diags \o rest.diags]
        next(one) ==
            IF one.err # "" THEN one
            ELSE append(one, lintInputs(Tail(names), stdin, a))
    IN  IF names = <<>> THEN [err |-> "", diags |-> <<>>]
        ELSE IF Head(names) = "-" THEN next(lintReader("stdin", stdin, a.strict))
        ELSE next(lintFile(Head(names), a.strict))

\* doLint that takes a diagnostic of any severity for an error
doLint_AnySeverity(files, stdin, a) ==
    LET hasErrors(diags) == Len(diags) > 0
        outcome(all, printed) ==
            IF printed.err # ""
            THEN [hasErrors |-> FALSE, err |-> printed.err, diags |-> all.diags,
                  out |-> printed.out]
            ELSE [hasErrors |-> hasErrors(all.diags), err |-> "", diags |-> all.diags,
                  out |-> printed.out]
        report(all) ==
            IF all.err # ""
            THEN [hasErrors |-> FALSE, err |-> all.err, diags |-> <<>>, out |-> ""]
            ELSE outcome(all, outputDiagnostics(all.diags, hasErrors(all.diags), a))
    IN  IF Len(files) = 0 THEN report(lintReader("stdin", stdin, a.strict))
        ELSE report(lintInputs(files, stdin, a))

\* doLint: the diagnostics of all inputs are collected, then printed; the
\* first input that cannot be read ends it with an error
doLint(files, stdin, a) ==
    LET hasErrors(diags) == \E i \in 1..Len(diags) : diags[i].Severity = "error"
        outcome(all, printed) ==
            IF printed.err # ""
            THEN [hasErrors |-> FALSE, err |-> printed.err, diags |-> all.diags,
                  out |-> printed.out]
            ELSE [hasErrors |-> hasErrors(all.diags), err |-> "", diags |-> all.diags,
                  out |-> printed.out]
        report(all) ==
            IF all.err # ""
            THEN [hasErrors |-> FALSE, err |-> all.err, diags |-> <<>>, out |-> ""]
            ELSE outcome(all, outputDiagnostics(all.diags, hasErrors(all.diags), a))
    IN  IF Len(files) = 0 THEN report(lintReader("stdin", stdin, a.strict))
        ELSE report(lintInputs(files, stdin, a))

\* command lines of lint: no file (standard input) or one or two inputs, one
\* of them possibly standard input
LintArgs ==
    LET names == {"ok.kql", "warn.kql", "bad.kql", "gone.kql", "-"}
        lists == {<<>>} \cup {<<n>> : n \in names}
                 \cup {<<n1, n2>> : n1 \in names, n2 \in names \ {"-"}}
    IN  {[NoArgs EXCEPT !.files = f, !.strict = st, !.quiet = q, !.format = fm] :
            f \in lists, st \in BOOLEAN, q \in BOOLEAN, fm \in {"text", "json", "xml"}}

\* texts of parser errors handed to the two conversions
ErrorTexts ==
    {s \o ":" \o l \o ":" \o c \o sep \o m :
        s \in {"", "generated.kql", "my query"},
        l \in {"", "3", "12", "007", "x"},
        c \in {"", "7", "40", "-1"},
        sep \in {": ", ":", " "},
        m \in {"", "expected ')'", "saw 1:2: here", "two\nlines"}}
    \cup {"", "syntax error", "unexpected end of input", "generated.kql:3:7"}

\* a process started as kql lint, or one of the conversions called with a text
InitLint ==
    /\ command \in {"lint", ""}
    /\ IF command = "lint"
       THEN /\ args \in LintArgs
            /\ query \in (IF Len(args.files) = 0 \/ \E i \in 1..Len(args.files) : args.files[i] = "-"
                          THEN {"T | take 10\n", "T | where (("} ELSE {""})
            /\ response = ""
            /\ pc = "main"
       ELSE /\ args = NoArgs
            /\ query = ""
            /\ response \in ErrorTexts
            /\ pc = "convert"
    /\ cfg = DefaultValidationConfig
    /\ req = GenerateRequest("", "", "")
    /\ baseTemp = CommandTemperature
    /\ provider = NewProvider(baseTemp)
    /\ fileCfg = Nil
    /\ env = NoEnv
    /\ attempt = 0
    /\ prompt = ""
    /\ temp = 0
    /\ lastKQL = ""
    /\ lastErrors = <<>>
    /\ ret = "none"
    /\ result = GenerateResult("", FALSE, <<>>, 0)
    /\ err = ""
    /\ calls = 0
    /\ sent = [prompt |-> "", temperature |-> 0]
    /\ perr = ""
    /\ validations = 0
    /\ validated = ""
    /\ parsed = <<>>
    /\ ProcessAtRest

\* runLint: doLint, then osExit(1) when a diagnostic is an error; an error
\* returned by doLint is returned, and the process exits with status 1
RunLint ==
    /\ pc = "main"
    /\ command = "lint"
    /\ LET finish(r) ==
               /\ allDiagnostics' = r.diags
               /\ stdout' = stdout \o r.out
               /\ err' = r.err
               /\ ret' = IF r.err # "" THEN "error" ELSE ret
               /\ exitCode' = IF r.err # "" \/ r.hasErrors THEN 1 ELSE 0
       IN  finish(doLint(args.files, query, args))
    /\ pc' = "exit"
    /\ UNCHANGED <<inputs, command, args, fileCfg, env, stderr, query, currentQuery,
                   currentErrors, fixedQuery, fixErrors, ctxDone, attempt, prompt, temp,
                   response, lastKQL, lastErrors, result, calls, sent, perr, validations,
                   validated, parsed>>

\* parseErrorToValidationError and parseErrorToDiagnostic are called with
\* the same text
Convert ==
    /\ pc = "convert"
    /\ lastErrors' = <<parseErrorToValidationError(response)>>
    /\ allDiagnostics' = <<parseErrorToDiagnostic(SourceName, response)>>
    /\ pc' = "converted"
    /\ UNCHANGED <<inputs, command, args, fileCfg, env, stdout, stderr, exitCode, query,
                   currentQuery, currentErrors, fixedQuery, fixErrors, ctxDone, attempt,
                   prompt, temp, response, lastKQL, ret, result, err, calls, sent, perr,
                   validations, validated, parsed>>

NextLint ==
    \/ RunLint
    \/ Convert

SpecLint == InitLint /\ [][NextLint]_vars

\* ------------------------------------------------------------------------
\* Properties
\* ------------------------------------------------------------------------

\* the run returned a GenerateResult and validation was enabled
ReturnedEnabled == cfg.Enabled /\ ret = "result"

\* the ValidationError a parser diagnostic stands for: its position and
\* message, or line 1, column 1 and the message when it has no position
ExpectedError(d) ==
    IF d.Positioned THEN ValidationError(d.Line, d.Column, d.Message)
    ELSE ValidationError(1, 1, d.Message)

ExpectedErrors(diags) == [i \in 1..Len(diags) |-> ExpectedError(diags[i])]

\* C1: every result returned with validation enabled has
\* Attempts <= Retries + 1, no errors when Valid, and Attempts = Retries + 1
\* when not Valid.
C1_ResultInvariant ==
    ReturnedEnabled =>
        /\ result.Attempts <= cfg.Retries + 1
        /\ (result.Valid => result.Errors = <<>>)
        /\ (~result.Valid => result.Attempts = cfg.Retries + 1)

\* a run that stopped early on success and a budget that was not used up
C1_Witness ==
    /\ ReturnedEnabled
    /\ result.Valid
    /\ result.Attempts = 2
    /\ cfg.Retries = 2

\* C2: in every result, Attempts is the number of provider.Complete calls
\* made, and that number lies in 1..Retries+1.
C2_AttemptsCountCalls ==
    ret = "result" =>
        /\ result.Attempts = calls
        /\ calls \in 1..(cfg.Retries + 1)

\* C3: a validation with zero diagnostics ends the run at once with
\* Valid = true and Attempts = the number of that attempt = the number of
\* provider calls made, and nothing is called or validated after a return.
C3_StopsAtFirstValid ==
    [][ /\ (validations' = validations + 1 /\ parsed' = <<>>) =>
            /\ ret' = "result"
            /\ pc' = "return"
            /\ result'.Valid
            /\ result'.Attempts = attempt
            /\ result'.Attempts = calls'
            /\ validations' = calls'
        /\ (ret = "result" /\ result.Valid) =>
            /\ calls' = calls
            /\ validations' = validations
      ]_vars

\* the second attempt validated while one more retry was allowed
C3_Witness ==
    /\ ReturnedEnabled
    /\ result.Valid
    /\ parsed = <<>>
    /\ calls = 2
    /\ validations = 2
    /\ cfg.Retries = 2

\* C4: when attempts were made and none validated, the run made exactly
\* Retries + 1 provider calls and returns Valid = false, Attempts =
\* Retries + 1, the candidate of the final attempt and the diagnostics of
\* the final attempt only.
C4_ExhaustedResult ==
    (ReturnedEnabled /\ calls >= 1 /\ parsed # <<>>) =>
        /\ ~result.Valid
        /\ calls = cfg.Retries + 1
        /\ validations = calls
        /\ result.Attempts = cfg.Retries + 1
        /\ result.Query = validated
        /\ result.Errors = ExpectedErrors(parsed)
        /\ (cfg.Retries = 0 => calls = 1 /\ result.Attempts = 1)

\* three attempts failed; the last one has fewer diagnostics than a run can
\* have collected before
C4_Witness ==
    /\ ReturnedEnabled
    /\ ~result.Valid
    /\ calls = 3
    /\ Len(parsed) = 1
    /\ Len(result.Errors) = 1

\* C5: with validation disabled there is exactly one provider call, with
\* the unmodified initial prompt, no validation, and the result is Valid
\* with Attempts = 1 and no errors, whatever the candidate and Retries are.
C5_DisabledSingleCall ==
    ~cfg.Enabled =>
        /\ calls <= 1
        /\ validations = 0
        /\ pc = "return" =>
              /\ calls = 1
              /\ sent.prompt = buildGeneratePrompt(req.Prompt, req.Table, req.Schema)
        /\ ret = "result" =>
              /\ result.Valid
              /\ result.Attempts = 1
              /\ result.Errors = <<>>

\* validation is off and a candidate the parser rejects was returned
C5_Witness ==
    /\ ~cfg.Enabled
    /\ ret = "result"
    /\ Len(Parse(result.Query)) > 0
    /\ cfg.Retries = 2

\* C6: a provider error ends the run at once with an error and no result,
\* the failed call is not repeated and nothing is validated after it; and an
\* error is returned only when the provider failed.
C6_ProviderErrorAborts ==
    [][ /\ (calls' = calls + 1 /\ perr' # "") =>
            /\ ret' = "error"
            /\ pc' = "return"
            /\ err' # ""
            /\ result' = result
            /\ validations' = validations
        /\ ret = "error" =>
            /\ calls' = calls
            /\ validations' = validations
            /\ ret' = "error"
        /\ (ret' = "error" /\ ret # "error") => (calls' = calls + 1 /\ perr' # "")
      ]_vars

\* the provider failed on a retry, after a validation failure
C6_Witness ==
    /\ ret = "error"
    /\ cfg.Enabled
    /\ attempt = 2
    /\ calls = 2
    /\ validations = 1
    /\ lastErrors # <<>>

\* C7: on every attempt the request the provider issues carries the prompt
\* and the temperature computed for that attempt.
C7_ProviderGetsScheduledTemp ==
    (cfg.Enabled /\ pc = "validate") =>
        /\ sent.prompt = prompt
        /\ sent.temperature = temp

Min(a, b) == IF a <= b THEN a ELSE b

\* C8: the temperature of an attempt is base on attempt 1, base when Adjust
\* is off, and min(base + (attempt-1)*Increment, Max) otherwise.
C8_TemperatureFormula ==
    (cfg.Enabled /\ pc = "complete") =>
        temp = IF attempt = 1 THEN baseTemp
               ELSE IF ~cfg.Temp.Adjust THEN baseTemp
               ELSE Min(baseTemp + (attempt - 1) * cfg.Temp.Increment, cfg.Temp.Max)

\* a retry whose raised temperature is cut to Max
C8_Witness ==
    /\ cfg.Enabled
    /\ pc = "complete"
    /\ attempt = 3
    /\ cfg.Temp.Adjust
    /\ baseTemp < cfg.Temp.Max
    /\ baseTemp + 2 * cfg.Temp.Increment > cfg.Temp.Max
    /\ temp = cfg.Temp.Max

\* C9: with Adjust on, from one retry to the next the temperature never
\* goes down, and it never exceeds Max.
C9_MonotoneBounded ==
    [][ (pc = "loop" /\ pc' = "complete" /\ cfg.Temp.Adjust /\ attempt > 1) =>
            /\ temp' <= cfg.Temp.Max
            /\ attempt > 2 => temp' >= temp
      ]_vars

\* the text "Line {line}, Column {column}: {message}" of a parser diagnostic
ExpectedLine(d) ==
    "Line " \o FmtInt(ExpectedError(d).Line) \o ", Column " \o FmtInt(ExpectedError(d).Column)
    \o ": " \o ExpectedError(d).Message

\* C10: the prompt of a retry contains "Line l, Column c: message" for every
\* diagnostic of the previous attempt when Feedback.Errors is on, and no
\* such line when it is off.
C10_RetryPromptErrorLines ==
    (cfg.Enabled /\ pc = "complete" /\ attempt > 1) =>
        IF cfg.Feedback.Errors
        THEN \A i \in 1..Len(parsed) : Contains(prompt, ExpectedLine(parsed[i]))
        ELSE /\ \A i \in 1..Len(parsed) : ~Contains(prompt, ExpectedLine(parsed[i]))
             /\ ~Contains(prompt, "- Line ")

\* a retry prompt carrying the lines of two diagnostics, one positioned and
\* one not
C10_Witness ==
    /\ cfg.Enabled
    /\ pc = "complete"
    /\ attempt = 2
    /\ cfg.Feedback.Errors
    /\ Len(parsed) = 2
    /\ Contains(prompt, "- Line 2, Column 15: expected expression after BY\n")
    /\ Contains(prompt, "- Line 1, Column 1: unexpected end of input\n")

\* the part of a retry prompt every retry prompt begins with: the initial
\* prompt, the separator and the previous candidate in a fenced block
RetryHead(r, candidate) ==
    buildGeneratePrompt(r.Prompt, r.Table, r.Schema)
    \o "\n\n---\n\n"
    \o "Your previous attempt had syntax errors:\n\n"
    \o Fence \o "kql\n" \o candidate \o "\n" \o Fence \o "\n\n"

\* the first position at which sub occurs in s; 0 when there is none
FirstAt(s, sub) ==
    LET P == {i \in 1..(Len(s) - Len(sub) + 1) : SubSeq(s, i, i + Len(sub) - 1) = sub}
    IN  IF P = {} THEN 0 ELSE CHOOSE i \in P : \A j \in P : i <= j

\* the positions in ps that are not 0 increase from left to right
Increasing(ps) ==
    \A i, j \in 1..Len(ps) : (i < j /\ ps[i] # 0 /\ ps[j] # 0) => ps[i] < ps[j]

\* C11: a retry prompt is the initial prompt, the separator, the previous
\* candidate in a fenced block, then the sections errors, hints, examples and
\* emphasis in that order, then the closing instruction; a section is there
\* exactly when its feature is on and it has something to say (emphasis:
\* Progressive and attempt >= 3).
C11_RetryPromptShape ==
    (cfg.Enabled /\ pc = "complete" /\ attempt > 1) =>
        LET head == RetryHead(req, validated)
            body == SubSeq(prompt, Len(head) + 1, Len(prompt))
            iErrors == FirstAt(body, "Errors:\n")
            iHints == FirstAt(body, "Hints:\n")
            iExamples == FirstAt(body, "Correct syntax examples:\n")
            iEmphasis == FirstAt(body, "IMPORTANT: ")
            iClosing == FirstAt(body, "Please fix these errors and provide a corrected query.")
        IN  /\ HasPrefix(prompt, head)
            /\ iErrors # 0 <=> cfg.Feedback.Errors
            /\ iHints # 0 <=> (cfg.Feedback.Hints /\ HintSet(lastErrors) # {})
            /\ iExamples # 0 <=>
                  (cfg.Feedback.Examples
                   /\ ExampleSet(lastErrors, attempt, cfg.Feedback.Progressive) # {})
            /\ iEmphasis # 0 <=> (cfg.Feedback.Progressive /\ attempt >= 3)
            /\ iClosing # 0
            /\ iClosing + Len("Please fix these errors and provide a corrected query.") - 1
                  = Len(body)
            /\ Increasing(<<iErrors, iHints, iExamples, iEmphasis, iClosing>>)
            /\ (iErrors = 0 /\ iHints = 0 /\ iExamples = 0 /\ iEmphasis = 0) => iClosing = 1
            /\ iErrors \in {0, 1}

\* the second attempt's prompt with every feature on: the errors matched a
\* hint and no example, so the examples section is left out
C11_Witness ==
    /\ cfg.Enabled
    /\ pc = "complete"
    /\ attempt = 2
    /\ cfg.Feedback = [Errors |-> TRUE, Hints |-> TRUE, Examples |-> TRUE, Progressive |-> TRUE]
    /\ HintSet(lastErrors) # {}
    /\ ExampleSet(lastErrors, attempt, TRUE) = {}
    /\ Contains(prompt, "Hints:\n- The 'by' clause")
    /\ ~Contains(prompt, "Correct syntax examples:")

\* C12: the request never changes, and the prompt of an attempt k > 1 is
\* built from the request and from the candidate and the diagnostics of the
\* validation of attempt k - 1 alone.
C12_RequestFrame ==
    [][ /\ req' = req
        /\ (pc = "loop" /\ pc' = "complete" /\ attempt > 1) =>
              \E hints \in Orders(HintSet(ExpectedErrors(parsed))) :
              \E examples \in Orders(ExampleSet(ExpectedErrors(parsed), attempt,
                                                cfg.Feedback.Progressive)) :
                 prompt' = buildRetryPrompt(req, validated, ExpectedErrors(parsed), attempt,
                                            cfg.Feedback, hints, examples)
      ]_vars

\* the prompt of attempt 3 after two attempts with different candidates: it
\* names the second candidate and not the first
C12_Witness ==
    /\ cfg.Enabled
    /\ pc = "complete"
    /\ attempt = 3
    /\ cfg.Feedback.Errors
    /\ validated = "StormEvents\n| summarize by"
    /\ Contains(prompt, "expected expression after BY")
    /\ ~Contains(prompt, "StormEvents | where (State == 'TX'")
    /\ ~Contains(prompt, "expected ')'")

\* C13: in fix, the prompt of attempt 1 is built from the query of the user
\* and its parse errors; the prompt of an attempt k > 1 is built from the
\* candidate of attempt k - 1 and the parse errors of that candidate, and
\* does not show the query of the user (unless the candidate is that text).
C13_FixPromptSource ==
    (command = "fix" /\ pc = "fixComplete") =>
        /\ attempt = 1 =>
              prompt = buildFixPrompt(query, buildErrorContext(query, ParseAs("input", query)))
        /\ attempt > 1 =>
              /\ validated = extractFixedQuery(response)
              /\ prompt = buildFixPrompt(validated,
                              buildErrorContext(validated, ParseAs("fixed", validated)))
              /\ validated # query =>
                    ~Contains(prompt, Fence \o "kql\n" \o query \o "\n" \o Fence)

\* the second prompt of fix, after a candidate that is not the query given
C13_Witness ==
    /\ command = "fix"
    /\ pc = "fixComplete"
    /\ attempt = 2
    /\ query = "StormEvents | where (State == 'TX'"
    /\ validated = "StormEvents\n| summarize by"
    /\ Contains(prompt, "1. fixed:2:15: expected expression after BY\n")

\* C14: generate prints a valid candidate and exits with 0; a candidate that
\* is not valid is printed after a warning, with exit status 0, when Strict
\* is off, and is not printed, after an error message and with exit status
\* 1, when Strict is on.
C14_GenerateOutcome ==
    (command = "generate" /\ pc = "exit" /\ ret = "result") =>
        /\ result.Valid =>
              /\ stdout = result.Query \o "\n"
              /\ stderr = ""
              /\ exitCode = 0
        /\ (~result.Valid /\ ~cfg.Strict) =>
              /\ HasPrefix(stderr, WarningSign \o " Warning: ")
              /\ stdout = result.Query \o "\n"
              /\ exitCode = 0
        /\ (~result.Valid /\ cfg.Strict) =>
              /\ HasPrefix(stderr, "Error: ")
              /\ stdout = ""
              /\ exitCode = 1

\* generate --strict gave up after its attempts: status 1 and nothing printed
C14_Witness ==
    /\ command = "generate"
    /\ pc = "exit"
    /\ ret = "result"
    /\ ~result.Valid
    /\ args.strict
    /\ calls >= 2
    /\ exitCode = 1
    /\ stdout = ""

\* fix made all its attempts and the candidate of the last one has errors
FixGaveUp ==
    /\ command = "fix"
    /\ pc = "exit"
    /\ ret # "error"
    /\ calls >= 1
    /\ calls = fixMaxAttempts
    /\ validations = calls + 1
    /\ parsed # <<>>

\* C15: fix with --strict exits with status 1 whenever the candidate of the
\* last attempt still has errors, whatever the other flags are.
C15_FixStrictExits ==
    (FixGaveUp /\ args.strict) => exitCode = 1

\* all the diagnostics the parser has for the texts of the model
KnownDiags ==
    UNION { {ParseDiags(c)[i] : i \in 1..Len(ParseDiags(c))} :
            c \in Queries \cup {extractKQL(r) : r \in Responses}
                          \cup {extractFixedQuery(r) : r \in Responses} }

\* text shows the diagnostic d: its message, and its position when it has one
Shows(text, d) ==
    /\ Contains(text, d.Message)
    /\ d.Positioned =>
          \/ Contains(text, "Line " \o FmtInt(d.Line) \o ", Column " \o FmtInt(d.Column)
                            \o ": " \o d.Message)
          \/ Contains(text, ":" \o FmtInt(d.Line) \o ":" \o FmtInt(d.Column)
                            \o ": " \o d.Message)

\* the command ended with a candidate that is not valid
EndedInvalid ==
    /\ pc = "exit"
    /\ \/ command = "generate" /\ ret = "result" /\ ~result.Valid /\ calls >= 1
       \/ FixGaveUp

\* C16: when generate or fix ends with a candidate that is not valid, the
\* message on standard error names the number of attempts and shows every
\* diagnostic of the last attempt, and no other diagnostic.
C16_StderrLastDiagnostics ==
    EndedInvalid =>
        /\ Contains(stderr, FmtInt(calls) \o " attempt(s)")
        /\ \A i \in 1..Len(parsed) : Shows(stderr, parsed[i])
        /\ \A d \in KnownDiags :
              Contains(stderr, d.Message) => \E i \in 1..Len(parsed) : parsed[i] = d

\* the validation configuration generate runs with
ConfigBuilt == command = "generate" /\ pc # "main"

\* the Retries of the config file, or the default
FileRetries == IF fileCfg = Nil THEN 2 ELSE OrElse(fileCfg[1].Retries, 2)

\* C17: when --retries is not given, Retries is 0, 5 or 3 for the presets
\* minimal, thorough and strict, and otherwise the value of the config file
\* or, when it sets none, the default 2.
C17_RetriesLayering ==
    (ConfigBuilt /\ args.retries = Nil) =>
        cfg.Retries = CASE args.preset = "minimal" -> 0
                        [] args.preset = "thorough" -> 5
                        [] args.preset = "strict" -> 3
                        [] OTHER -> FileRetries

\* C18: without --no-validate, KQL_VALIDATE=true gives Enabled = true and
\* KQL_VALIDATE=false gives Enabled = false, whatever the config file says.
C18_EnvValidate ==
    (ConfigBuilt /\ ~args.noValidate) =>
        /\ env.KQL_VALIDATE = "true" => cfg.Enabled
        /\ env.KQL_VALIDATE = "false" => ~cfg.Enabled

\* C19: extractKQL returns a string for every text: no index or slice
\* expression of it is out of range.
C19_ExtractTotal ==
    /\ pc \in {"extract", "extracted"}
    /\ pc = "extracted" => lastKQL # Panic

\* two fences with nothing between them: no block is found, the pair of
\* backquotes around the text is removed, then one more on either side
C19_Witness ==
    /\ pc = "extracted"
    /\ response = Fence \o Fence
    /\ lastKQL = BT \o BT

RECURSIVE BlocksFrom(_, _, _, _)
\* the fenced blocks of a text whose fences stand at the start of a line:
\* each with the tag of its opening fence line and the lines between that
\* line and the closing fence
BlocksFrom(lines, open, tag, body) ==
    IF lines = <<>> THEN <<>>
    ELSE LET line == Head(lines) IN
         IF ~open
         THEN IF HasPrefix(line, Fence)
              THEN BlocksFrom(Tail(lines), TRUE, TrimSpace(SubSeq(line, 4, Len(line))), <<>>)
              ELSE BlocksFrom(Tail(lines), FALSE, "", <<>>)
         ELSE IF HasPrefix(line, Fence)
              THEN <<[tag |-> tag, interior |-> TrimSpace(Join(body, "\n"))]>>
                   \o BlocksFrom(Tail(lines), FALSE, "", <<>>)
              ELSE BlocksFrom(Tail(lines), TRUE, tag, Append(body, line))

Blocks(text) == BlocksFrom(Split(text, "\n"), FALSE, "", <<>>)

\* C20: for an answer with fenced blocks, extractKQL returns the interior of
\* a block tagged kql or kusto when there is one, and the interior of the
\* first block otherwise.
C20_FencePriority ==
    (pc = "extracted" /\ response \in Documents) =>
        LET blocks == Blocks(response)
            tagged == {i \in 1..Len(blocks) : blocks[i].tag \in {"kql", "kusto"}}
        IN  IF tagged # {}
            THEN \E i \in tagged : lastKQL = blocks[i].interior
            ELSE lastKQL = blocks[1].interior

\* the text extractKQL selects on the path it takes, before the backquotes
\* around the selection are looked at: the interior of the fenced block, the
\* lines the scan captured, or the whole answer
SelectedText(response0) ==
    LET answer == TrimSpace(response0)
        block == IF Contains(answer, Fence) THEN FencedBlock(answer, 1)
                 ELSE [found |-> FALSE, text |-> ""]
        kqlLines == ScanLines(Split(stripInlineBackticks(answer), "\n"), FALSE, <<>>)
    IN  IF block.found THEN block.text
        ELSE IF Len(kqlLines) > 0 THEN TrimSpace(Join(kqlLines, "\n"))
        ELSE answer

\* s without one backquote at its start and one at its end, if it has them
Peeled(s) == TrimSpace(TrimSuffix(TrimPrefix(TrimSpace(s), BT), BT))

\* s carries at most one backquote at each end
OneBacktickAtMost(s) == ~HasPrefix(Peeled(s), BT) /\ ~HasSuffix(Peeled(s), BT)

\* C21: on every path of extractKQL the backquotes are stripped after the
\* text is selected: when the selected text carries at most one backquote at
\* each end, the candidate returned neither begins nor ends with a backquote.
C21_StrippedAfterSelection ==
    (pc = "extracted" /\ OneBacktickAtMost(SelectedText(response))) =>
        /\ ~HasPrefix(lastKQL, BT)
        /\ ~HasSuffix(lastKQL, BT)

\* C22: once the context is done during a run of the controller, the run
\* ends with an error and without a GenerateResult, and no new attempt is
\* started.
C22_CancellationAborts ==
    [][ (command = "generate" /\ ctxDone) =>
            /\ (pc # "return" /\ pc' = "return") => (ret' = "error" /\ result' = result)
            /\ ~(pc = "loop" /\ pc' = "complete")
      ]_vars

\* an input named on the command line cannot be opened
LintUnreadable ==
    \E i \in 1..Len(args.files) : args.files[i] \notin DOMAIN FileSystem \cup {"-"}

FormSources == {"generated.kql", "my query"}

FormNumerals ==
    {<<"3", 3>>, <<"12", 12>>, <<"007", 7>>, <<"7", 7>>, <<"40", 40>>}

FormMessages == {"expected ')'", "saw 1:2: here"}

\* the ways to read text as "<source>:<line>:<column>: <message>"
FormsOf(text) ==
    {f \in FormSources \X FormNumerals \X FormNumerals \X FormMessages :
        text = f[1] \o ":" \o f[2][1] \o ":" \o f[3][1] \o ": " \o f[4]}

\* C24: parseErrorToValidationError turns "<source>:<line>:<column>: <message>"
\* into exactly (line, column, message) and any other text into line 1,
\* column 1 and the whole text as message; it always yields a
\* ValidationError, and parseErrorToDiagnostic of lint yields the same line,
\* column and message for the same text.
C24_Conversion ==
    pc = "converted" =>
        /\ Len(lastErrors) = 1
        /\ Len(allDiagnostics) = 1
        /\ \A f \in FormsOf(response) :
              lastErrors[1] = ValidationError(f[2][2], f[3][2], f[4])
        /\ FormsOf(response) = {} => lastErrors[1] = ValidationError(1, 1, response)
        /\ allDiagnostics[1].Line = lastErrors[1].Line
        /\ allDiagnostics[1].Column = lastErrors[1].Column
        /\ allDiagnostics[1].Message = lastErrors[1].Message

\* a positioned text whose message itself holds colons and digits
C24_Witness ==
    /\ pc = "converted"
    /\ response = "my query:007:40: saw 1:2: here"
    /\ lastErrors = <<ValidationError(7, 40, "saw 1:2: here")>>
    /\ allDiagnostics[1].Line = 7

\* C25: on a retry the prompt holds the emphasis sentence, and every slice
\* getErrorExamples can return for the diagnostics of the attempt before
\* holds the multi-line structural example, exactly when Progressive is set
\* and the attempt is the third or a later one, whatever the diagnostics
\* are; with Examples set the example is then in the prompt too.
C25_ProgressiveAdditions ==
    (pc = "complete" /\ attempt > 1) =>
        LET on == cfg.Feedback.Progressive /\ attempt >= 3
        IN  /\ Contains(prompt, RetryEmphasis) <=> on
            /\ \A examples \in getErrorExamples(lastErrors, attempt, cfg.Feedback.Progressive) :
                  (\E i \in 1..Len(examples) : examples[i] = ProgressiveExample) <=> on
            /\ cfg.Feedback.Examples => (Contains(prompt, ProgressiveExample) <=> on)

\* a third attempt with Progressive set whose diagnostics match no keyword
\* of the examples
C25_Witness ==
    /\ pc = "complete"
    /\ attempt = 3
    /\ cfg.Feedback.Progressive
    /\ cfg.Feedback.Examples
    /\ ExampleSet(lastErrors, attempt, TRUE) = {ProgressiveExample}
    /\ Contains(prompt, RetryEmphasis)
    /\ Contains(prompt, ProgressiveExample)

\* the numbers of the lines of text that start with an explanation phrase
ExplanationLines(text) ==
    {i \in 1..Len(Split(text, "\n")) : looksLikeExplanation(TrimSpace(Split(text, "\n")[i]))}

\* extractKQL finds no usable fenced block in the answer
OnLineScanPath(response0) ==
    ~(Contains(TrimSpace(response0), Fence) /\ FencedBlock(TrimSpace(response0), 1).found)

\* C26: on the line-scan path of extractKQL the capture stops at the first
\* line that starts with an explanation phrase: the candidate returned holds
\* no such line and ends before the first of them.
C26_StopsAtExplanation ==
    (pc = "extracted" /\ lastKQL # Panic /\ OnLineScanPath(response)) =>
        LET scanned == stripInlineBackticks(TrimSpace(response))
        IN  ExplanationLines(scanned) # {} =>
                /\ ExplanationLines(lastKQL) = {}
                /\ \A k \in ExplanationLines(scanned) : Len(Split(lastKQL, "\n")) < k

\* C27: whatever --retries is, when kql fix without --dry-run, given a query
\* with errors, prints a candidate and writes no warning and no error, the
\* candidate is the text extracted from an answer of the provider and it
\* parses without errors.
C27_FixPrintsValidated ==
    (/\ command = "fix"
     /\ pc = "exit"
     /\ ~args.dryRun
     /\ Len(ParseAs("input", query)) # 0
     /\ stdout # ""
     /\ stderr = "") =>
        /\ calls >= 1
        /\ stdout = extractFixedQuery(response) \o "\n"
        /\ Len(ParseAs("fixed", fixedQuery)) = 0

\* C28: with Adjust set and Increment > 0 the temperature computed for an
\* attempt is never lower than the one of the attempt before, the first
\* attempt included, whatever the base temperature and Max are.
C28_NeverLowerThanBefore ==
    [][ (/\ pc = "loop"
         /\ pc' = "complete"
         /\ attempt > 1
         /\ cfg.Temp.Adjust
         /\ cfg.Temp.Increment > 0) => temp' >= temp
      ]_vars

\* C29: buildRetryPrompt is deterministic: the prompt of a retry is the one
\* every call of buildRetryPrompt with the same request, candidate,
\* diagnostics, attempt number and FeedbackConfig returns, whichever slices
\* getErrorHints and getErrorExamples hand back.
C29_RetryPromptDeterministic ==
    (pc = "complete" /\ attempt > 1) =>
        \A hints \in getErrorHints(lastErrors) :
        \A examples \in getErrorExamples(lastErrors, attempt, cfg.Feedback.Progressive) :
            prompt = buildRetryPrompt(req, lastKQL, lastErrors, attempt, cfg.Feedback,
                                      hints, examples)

\* C30: in every result of a run with validation enabled Query and the
\* verdict come from one attempt: with Valid = true Query is the text the
\* validator accepted without diagnostics; with Valid = false Query is the
\* candidate of the last attempt, and Errors is not empty and holds the
\* diagnostics of the validator for that text.
C30_QueryAndVerdictAgree ==
    ReturnedEnabled =>
        /\ validations >= 1
        /\ result.Query = validated
        /\ result.Valid => parsed = <<>>
        /\ ~result.Valid =>
              /\ result.Errors # <<>>
              /\ result.Errors = ExpectedErrors(parsed)

====
